---- MODULE Spec2Model ----
(***************************************************************************)
(* RaceScanMobile: the Live screen of the mobile client                    *)
(* (src/mobile/src/components/Screen.js).                                  *)
(*                                                                         *)
(* A JavaScript string is modelled as a sequence of one-character strings, *)
(* so that trimming, case folding, splitting, prefix/suffix tests and the  *)
(* regular expressions of the source are computed character by character.  *)
(* The JavaScript value `undefined` is the one-element sequence Undef; an  *)
(* object property that the source never sets is a record field that is    *)
(* absent from the record.                                                 *)
(***************************************************************************)
EXTENDS Integers, Sequences, FiniteSets, TLC

\* ------------------------------------------------------------------------
\* Characters and strings
\* ------------------------------------------------------------------------

AlphaL == <<"a","b","c","d","e","f","g","h","i","j","k","l","m",
            "n","o","p","q","r","s","t","u","v","w","x","y","z">>

AlphaU == <<"A","B","C","D","E","F","G","H","I","J","K","L","M",
            "N","O","P","Q","R","S","T","U","V","W","X","Y","Z">>

Lower == {AlphaL[i] : i \in 1..26}

Upper == {AlphaU[i] : i \in 1..26}

Digit == {"0","1","2","3","4","5","6","7","8","9"}

Whitespace == {" ", "\t", "\n", "\r"}

\* JavaScript `undefined` where a string is expected.
Undef == <<"<undefined>">>

\* JavaScript truthiness of a string-or-undefined value.
Truthy(v) == v # Undef /\ v # <<>>

\* String(value || '')
StrOrEmpty(v) == IF Truthy(v) THEN v ELSE <<>>

\* Template-literal interpolation `${v}`: undefined prints as "undefined".
Interp(v) == IF v = Undef THEN <<"u","n","d","e","f","i","n","e","d">> ELSE v

ToLowerChar(c) == IF c \in Upper THEN AlphaL[CHOOSE i \in 1..26 : AlphaU[i] = c] ELSE c

ToUpperChar(c) == IF c \in Lower THEN AlphaU[CHOOSE i \in 1..26 : AlphaL[i] = c] ELSE c

toLowerCase(s) == [i \in 1..Len(s) |-> ToLowerChar(s[i])]

toUpperCase(s) == [i \in 1..Len(s) |-> ToUpperChar(s[i])]

startsWith(s, p) == Len(s) >= Len(p) /\ SubSeq(s, 1, Len(p)) = p

endsWith(s, p) == Len(s) >= Len(p) /\ SubSeq(s, Len(s) - Len(p) + 1, Len(s)) = p

\* String.prototype.includes
includes(s, sub) ==
  \E i \in 1..(Len(s) - Len(sub) + 1) : SubSeq(s, i, i + Len(sub) - 1) = sub

\* String.prototype.trim
trim(s) ==
  LET keep == {i \in 1..Len(s) : s[i] \notin Whitespace}
  IN  IF keep = {} THEN <<>>
      ELSE SubSeq(s, CHOOSE i \in keep : \A j \in keep : i <= j,
                     CHOOSE i \in keep : \A j \in keep : i >= j)

\* Array.prototype.join('') of a list of strings.
RECURSIVE Concat(_)
Concat(list) == IF list = <<>> THEN <<>> ELSE Head(list) \o Concat(Tail(list))

\* String.prototype.split on any single character of seps ('' gives ['']).
\* The pieces lie between consecutive separator positions.
split(s, seps) ==
  LET at == {i \in 1..Len(s) : s[i] \in seps}
      n == Cardinality(at)
      edge(k) == IF k = 0 THEN 0
                 ELSE IF k = n + 1 THEN Len(s) + 1
                 ELSE CHOOSE i \in at : Cardinality({j \in at : j <= i}) = k
  IN  [k \in 1..(n + 1) |-> SubSeq(s, edge(k - 1) + 1, edge(k) - 1)]

\* Array.prototype.filter with a predicate given as the set of kept values.
RECURSIVE FilterNonEmpty(_)
FilterNonEmpty(list) ==
  IF list = <<>> THEN <<>>
  ELSE IF Head(list) # <<>> THEN <<Head(list)>> \o FilterNonEmpty(Tail(list))
  ELSE FilterNonEmpty(Tail(list))

\* indexOf that answers 0 for an absent element.
indexOfOrZero(list, x) ==
  IF \E i \in 1..Len(list) : list[i] = x
  THEN (CHOOSE i \in 1..Len(list) : list[i] = x /\ \A j \in 1..(i - 1) : list[j] # x) - 1
  ELSE 0

\* Array.prototype.indexOf, 0-based, -1 when absent.
indexOf(list, x) ==
  IF \E i \in 1..Len(list) : list[i] = x
  THEN (CHOOSE i \in 1..Len(list) : list[i] = x /\ \A j \in 1..(i - 1) : list[j] # x) - 1
  ELSE -1

\* cols[k] for a 0-based k: undefined past the end of the array.
At(list, k) == IF k >= 0 /\ k < Len(list) THEN list[k + 1] ELSE Undef

\* Array.from(new Set(list)): first occurrences, in order.
RECURSIVE Dedupe(_, _)
Dedupe(list, seen) ==
  IF list = <<>> THEN seen
  ELSE IF \E i \in 1..Len(seen) : seen[i] = Head(list) THEN Dedupe(Tail(list), seen)
  ELSE Dedupe(Tail(list), Append(seen, Head(list)))

\* ------------------------------------------------------------------------
\* Literals of the source
\* ------------------------------------------------------------------------

API_BASE == <<"h","t","t","p","s",":","/","/","r","a","c","e","s","c","a","n",
              ".","r","a","c","i","n","g">>

WWW_BASE == <<"h","t","t","p","s",":","/","/","w","w","w",".","r","a","c","e",
              "s","c","a","n",".","r","a","c","i","n","g">>

STREAM_PROXY == API_BASE \o <<"/","a","p","i","/","s","t","r","e","a","m","?",
                              "m","o","u","n","t","=">>

STREAM_ORIGINS == <<API_BASE, WWW_BASE>>

DotMp3 == <<".","m","p","3">>

SlashIcecast == <<"/","i","c","e","c","a","s","t">>

fallbackDrivers ==
  << [number |-> <<"6","2">>,
      name |-> <<"K","e","e","l","e","n"," ","H","a","r","v","i","c","k">>,
      classType |-> <<"S","M","T">>],
     [number |-> <<"0","0">>,
      name |-> <<"C","h","a","s","e"," ","B","u","r","r","o","w">>,
      classType |-> <<"S","M","T">>],
     [number |-> <<"2","8">>,
      name |-> <<"L","a","n","d","o","n"," ","S","."," ","H","u","f","f","m","a","n">>,
      classType |-> <<"L","M","S","C">>] >>

\* A property of a driver object; undefined when the object lacks it.
Prop(d, f) == IF f \in DOMAIN d THEN d[f] ELSE Undef

\* ------------------------------------------------------------------------
\* parseCsvRow
\* ------------------------------------------------------------------------

RECURSIVE CsvScan(_, _, _, _, _)
CsvScan(line, i, cur, inQ, out) ==
  IF i > Len(line) THEN Append(out, trim(cur))
  ELSE LET ch == line[i] IN
    IF ch = "\""
    THEN IF inQ /\ i + 1 <= Len(line) /\ line[i + 1] = "\""
         THEN CsvScan(line, i + 2, Append(cur, "\""), inQ, out)
         ELSE CsvScan(line, i + 1, cur, ~inQ, out)
    ELSE IF ch = "," /\ ~inQ
    THEN CsvScan(line, i + 1, <<>>, inQ, Append(out, trim(cur)))
    ELSE CsvScan(line, i + 1, Append(cur, ch), inQ, out)

parseCsvRow(line) == CsvScan(line, 1, <<>>, FALSE, <<>>)

\* ------------------------------------------------------------------------
\* slugify
\* ------------------------------------------------------------------------

IsSlugChar(c) == c \in Lower \/ c \in Digit

\* .replace(/[^a-z0-9]+/g, '-'): every maximal run of other characters
\* becomes one hyphen.
RECURSIVE ReplaceRuns(_, _, _)
ReplaceRuns(s, out, inRun) ==
  IF s = <<>> THEN out
  ELSE IF IsSlugChar(Head(s)) THEN ReplaceRuns(Tail(s), Append(out, Head(s)), FALSE)
  ELSE IF inRun THEN ReplaceRuns(Tail(s), out, TRUE)
  ELSE ReplaceRuns(Tail(s), Append(out, "-"), TRUE)

\* .replace(/^-+|-+$/g, '')
StripEdgeHyphens(s) ==
  LET keep == {i \in 1..Len(s) : s[i] # "-"}
  IN  IF keep = {} THEN <<>>
      ELSE SubSeq(s, CHOOSE i \in keep : \A j \in keep : i <= j,
                     CHOOSE i \in keep : \A j \in keep : i >= j)

\* slugify without its fallback.
slugifyWithoutFallback(value, fallback) ==
  StripEdgeHyphens(ReplaceRuns(toLowerCase(trim(StrOrEmpty(value))), <<>>, FALSE))

\* slugify without .toLowerCase().
slugifyKeepingCase(value, fallback) ==
  LET v == StripEdgeHyphens(ReplaceRuns(trim(StrOrEmpty(value)), <<>>, FALSE))
  IN  IF v # <<>> THEN v ELSE StrOrEmpty(fallback)

slugify(value, fallback) ==
  LET v == StripEdgeHyphens(ReplaceRuns(toLowerCase(trim(StrOrEmpty(value))), <<>>, FALSE))
  IN  IF v # <<>> THEN v ELSE StrOrEmpty(fallback)

\* ------------------------------------------------------------------------
\* Stream candidates
\* ------------------------------------------------------------------------

AudioExts == { <<".","m","p","3">>, <<".","a","a","c">>, <<".","m","4","a">>,
               <<".","o","g","g">>, <<".","o","p","u","s">> }

\* .replace(/\?.*$/, '') then .replace(/\.(mp3|aac|m4a|ogg|opus)$/i, '')
stripQueryAndExt(value) ==
  LET s == StrOrEmpty(value)
      qs == {i \in 1..Len(s) : s[i] = "?"}
      noQuery == IF qs = {} THEN s
                 ELSE SubSeq(s, 1, (CHOOSE i \in qs : \A j \in qs : i <= j) - 1)
      low == toLowerCase(noQuery)
      hit == {e \in AudioExts : endsWith(low, e)}
  IN  IF hit = {} THEN noQuery
      ELSE SubSeq(noQuery, 1, Len(noQuery) - Len(CHOOSE e \in hit : TRUE))

ensureLeadingSlash(value) ==
  IF value = <<>> THEN <<>>
  ELSE IF startsWith(value, <<"/">>) THEN value ELSE <<"/">> \o value

normalizeMountBase(mountPath) ==
  LET sanitized == ensureLeadingSlash(stripQueryAndExt(mountPath))
  IN  IF sanitized = <<>> THEN <<>>
      ELSE IF startsWith(sanitized, SlashIcecast \o <<"/">>)
           THEN SubSeq(sanitized, Len(SlashIcecast) + 1, Len(sanitized))
           ELSE sanitized

\* encodeURIComponent: every character outside A-Z a-z 0-9 - _ . ! ~ * ' ( )
\* is percent-encoded (the ASCII characters that occur in mounts and ids).
PercentCode(c) ==
  CASE c = "/" -> <<"%","2","F">>
    [] c = "?" -> <<"%","3","F">>
    [] c = "&" -> <<"%","2","6">>
    [] c = "=" -> <<"%","3","D">>
    [] c = " " -> <<"%","2","0">>
    [] c = ":" -> <<"%","3","A">>
    [] c = "%" -> <<"%","2","5">>
    [] c = "+" -> <<"%","2","B">>
    [] c = "," -> <<"%","2","C">>
    [] c = "#" -> <<"%","2","3">>
    [] OTHER   -> <<c>>

RECURSIVE encodeURIComponent(_)
encodeURIComponent(s) ==
  IF s = <<>> THEN <<>> ELSE PercentCode(Head(s)) \o encodeURIComponent(Tail(s))

WithExt(path, ext) == IF endsWith(path, ext) THEN path ELSE path \o ext

\* The origins x paths x extensions loops, in push order.
DirectCandidates(primary, fallback) ==
  LET paths == <<primary, fallback>>
  IN  Concat([o \in 1..Len(STREAM_ORIGINS) |->
        [p \in 1..Len(paths) |-> STREAM_ORIGINS[o] \o WithExt(paths[p], DotMp3)]])

\* A relay candidate that never carries the session id.
ProxyCandidateWithoutSession(primary, sessionId) ==
  STREAM_PROXY \o encodeURIComponent(WithExt(primary, DotMp3))

\* The candidate unshifted to the front: the proxy relay, with the session id
\* when there is one.
ProxyCandidate(primary, sessionId) ==
  LET encodedMount == encodeURIComponent(WithExt(primary, DotMp3))
  IN  IF Truthy(sessionId)
      THEN STREAM_PROXY \o encodedMount \o <<"&","s","i","d","=">> \o encodeURIComponent(sessionId)
      ELSE STREAM_PROXY \o encodedMount

buildStreamCandidates(mountPath, sessionId) ==
  LET base == normalizeMountBase(mountPath)
      primary == SlashIcecast \o base
  IN  IF base = <<>> THEN <<>>
      ELSE Dedupe(<<ProxyCandidate(primary, sessionId)>> \o DirectCandidates(primary, base), <<>>)

\* `${url}${joiner}ts=${Date.now()}`: the clock value is the one token "<now>".
withCacheBuster(url) ==
  IF ~Truthy(url) THEN url
  ELSE url \o <<(IF includes(url, <<"?">>) THEN "&" ELSE "?"), "t", "s", "=", "<now>">>

\* ------------------------------------------------------------------------
\* Drivers CSV
\* ------------------------------------------------------------------------

ClassDelims == {",", "/", "|", ";"}

RemoveBrackets(s) == SelectSeq(s, LAMBDA c : c \notin {"[", "]"})

\* String.prototype.match(/[A-Za-z]+/g): the maximal runs of letters.
RECURSIVE LetterRuns(_, _)
LetterRuns(s, cur) ==
  IF s = <<>> THEN (IF cur = <<>> THEN <<>> ELSE <<cur>>)
  ELSE IF Head(s) \in Lower \cup Upper THEN LetterRuns(Tail(s), Append(cur, Head(s)))
  ELSE (IF cur = <<>> THEN <<>> ELSE <<cur>>) \o LetterRuns(Tail(s), <<>>)

\* The value is a CSV cell here (a string or undefined), never an array.
normalizeClassList(value) ==
  IF ~Truthy(value) THEN <<>>
  ELSE LET parts == split(RemoveBrackets(value), ClassDelims)
           cleaned == FilterNonEmpty([i \in 1..Len(parts) |-> toUpperCase(trim(parts[i]))])
           tokens == LetterRuns(value, <<>>)
       IN  IF cleaned # <<>> THEN cleaned
           ELSE [i \in 1..Len(tokens) |-> toUpperCase(tokens[i])]

\* csvText.split(/\r?\n/): a carriage return right before a line feed belongs
\* to the separator.
SplitLines(text) ==
  LET raw == split(text, {"\n"})
  IN  [i \in 1..Len(raw) |->
         IF i < Len(raw) /\ raw[i] # <<>> /\ raw[i][Len(raw[i])] = "\r"
         THEN SubSeq(raw[i], 1, Len(raw[i]) - 1) ELSE raw[i]]

\* lines[0].split(',').map((h) => h.trim().toLowerCase())
HeaderOf(line) ==
  LET cells == split(line, {","})
  IN  [i \in 1..Len(cells) |-> toLowerCase(trim(cells[i]))]

H_driver_number == <<"d","r","i","v","e","r"," ","n","u","m","b","e","r">>

H_driver_name == <<"d","r","i","v","e","r"," ","n","a","m","e">>

H_class == <<"c","l","a","s","s">>

H_number_logo == <<"n","u","m","b","e","r","_","l","o","g","o">>

H_frequency == <<"f","r","e","q","u","e","n","c","y","_","1"," ","(","h","z",")">>

\* One data line of the drivers CSV as a DriverRecord.
DriverOfLine(line, header) ==
  LET cols == parseCsvRow(line)
      iNumber == indexOf(header, H_driver_number)
      iName == indexOf(header, H_driver_name)
      iKlass == indexOf(header, H_class)
      iLogo == indexOf(header, H_number_logo)
      iFreq == indexOf(header, H_frequency)
      number == IF iNumber >= 0 THEN At(cols, iNumber) ELSE At(cols, 0)
      name == IF iName >= 0 THEN At(cols, iName) ELSE At(cols, 1)
      classRaw == IF iKlass >= 0 THEN At(cols, iKlass) ELSE At(cols, 5)
      classList == normalizeClassList(classRaw)
      classType == IF classList # <<>> THEN classList[1] ELSE <<>>
      classSlug == slugify(classType, <<"c","l","a","s","s">>)
      numberSlug == slugify(number, <<"n","a">>)
      nameSlug == slugify(IF Truthy(name) THEN name ELSE number, <<"d","r","i","v","e","r">>)
      baseSlug == classSlug \o <<"-">> \o numberSlug \o <<"-">> \o nameSlug
      plainMount == <<"/">> \o baseSlug \o DotMp3
  IN  [number |-> number, name |-> name, classType |-> classType, classList |-> classList,
       plainMount |-> plainMount, icecastMount |-> SlashIcecast \o plainMount,
       logo |-> IF iLogo >= 0 THEN At(cols, iLogo) ELSE <<>>,
       frequency |-> IF iFreq >= 0 THEN At(cols, iFreq) ELSE <<>>]

parseDrivers(csvText) ==
  IF ~Truthy(csvText) THEN fallbackDrivers
  ELSE LET lines == FilterNonEmpty(SplitLines(csvText))
       IN  IF Len(lines) < 2 THEN fallbackDrivers
           ELSE [i \in 1..(Len(lines) - 1) |-> DriverOfLine(lines[i + 1], HeaderOf(lines[1]))]

\* ------------------------------------------------------------------------
\* Icecast status
\* ------------------------------------------------------------------------

MountNameChar(c) == c \in Lower \/ c \in Upper \/ c \in Digit \/ c \in {"_", "-"}

\* new URL(listen).pathname for an absolute http(s) URL; Undef when the
\* constructor throws (no scheme, or an empty host).
UrlPathname(listen) ==
  LET http == <<"h","t","t","p",":","/","/">>
      https == <<"h","t","t","p","s",":","/","/">>
      rest == IF startsWith(listen, https) THEN SubSeq(listen, Len(https) + 1, Len(listen))
              ELSE IF startsWith(listen, http) THEN SubSeq(listen, Len(http) + 1, Len(listen))
              ELSE <<>>
      stops == {i \in 1..Len(rest) : rest[i] \in {"/", "?", "#"}}
      hostEnd == IF stops = {} THEN Len(rest) + 1 ELSE CHOOSE i \in stops : \A j \in stops : i <= j
      tail == SubSeq(rest, hostEnd, Len(rest))
      cuts == {i \in 1..Len(tail) : tail[i] \in {"?", "#"}}
      path == IF cuts = {} THEN tail
              ELSE SubSeq(tail, 1, (CHOOSE i \in cuts : \A j \in cuts : i <= j) - 1)
  IN  IF hostEnd <= 1 THEN Undef
      ELSE IF path = <<>> THEN <<"/">> ELSE path

\* (String(listen).match(/\/[A-Za-z0-9_-]+\.mp3$/) || [])[0] || ''
TrailingMountMatch(listen) ==
  IF ~endsWith(listen, DotMp3) THEN <<>>
  ELSE LET body == SubSeq(listen, 1, Len(listen) - Len(DotMp3))
           bad == {i \in 1..Len(body) : ~MountNameChar(body[i])}
           last == IF bad = {} THEN 0 ELSE CHOOSE i \in bad : \A j \in bad : i >= j
       IN  IF last >= 1 /\ last < Len(body) /\ body[last] = "/"
           THEN SubSeq(listen, last, Len(listen)) ELSE <<>>

\* The path one source entry contributes ('' when none).
SourcePath(s) ==
  LET a == Prop(s, "listenurl")
      b == Prop(s, "listen_url")
      listen == IF Truthy(a) THEN a ELSE IF Truthy(b) THEN b ELSE <<>>
      viaUrl == UrlPathname(listen)
  IN  IF viaUrl # Undef THEN viaUrl ELSE TrailingMountMatch(listen)

\* statusJson is [kind, list]: icestats.source absent ("none"), one object
\* ("object") or an array ("array"); list holds the source entries.
\* The result is the Set in insertion order.
parseActiveMounts(statusJson) ==
  LET arr == IF statusJson.kind = "none" THEN <<>> ELSE statusJson.list
      paths == [i \in 1..Len(arr) |-> SourcePath(arr[i])]
  IN  Dedupe(SelectSeq(paths, LAMBDA p : p # <<>> /\ endsWith(p, DotMp3)), <<>>)

\* Set.prototype.has
has(set, x) == \E i \in 1..Len(set) : set[i] = x

\* ------------------------------------------------------------------------
\* Mount resolution (the enrichedDrivers map of load)
\* ------------------------------------------------------------------------

\* Array.from(activeMounts).find((m) => m.toLowerCase().includes(hint))
FindHint(activeMounts, hint) ==
  LET hits == {i \in 1..Len(activeMounts) : includes(toLowerCase(activeMounts[i]), hint)}
  IN  IF hits = {} THEN Undef
      ELSE activeMounts[CHOOSE i \in hits : \A j \in hits : i <= j]

\* A resolution that does not look for icecastMount.
ResolveActivePathWithoutIcecast(d, activeMounts) ==
  LET plain == Prop(d, "plainMount")
      hint == toLowerCase(Interp(d.classType) \o <<"-">> \o slugify(d.number, <<>>))
      alt == FindHint(activeMounts, hint)
  IN  IF has(activeMounts, plain) THEN plain
      ELSE IF Truthy(alt) THEN alt
      ELSE plain

ResolveActivePath(d, activeMounts) ==
  LET plain == Prop(d, "plainMount")
      ice == Prop(d, "icecastMount")
      direct == IF has(activeMounts, plain) THEN plain
                ELSE IF has(activeMounts, ice) THEN ice
                ELSE Undef
      hint == toLowerCase(Interp(d.classType) \o <<"-">> \o slugify(d.number, <<>>))
      alt == FindHint(activeMounts, hint)
  IN  IF Truthy(direct) THEN direct
      ELSE IF Truthy(alt) THEN alt
      ELSE plain

\* A flag without the default for an empty set.
HasLiveMountStrict(activeMounts, activePath) == has(activeMounts, activePath)

HasLiveMount(activeMounts, activePath) ==
  IF Len(activeMounts) = 0 THEN TRUE ELSE has(activeMounts, activePath)

EnrichDriver(d, activeMounts) ==
  LET activePath == ResolveActivePath(d, activeMounts)
      extra == [isActive |-> HasLiveMount(activeMounts, activePath), activePath |-> activePath]
  IN  [f \in DOMAIN d \cup DOMAIN extra |-> IF f \in DOMAIN extra THEN extra[f] ELSE d[f]]

EnrichDrivers(parsedDrivers, activeMounts) ==
  LET base == IF Len(parsedDrivers) > 0 THEN parsedDrivers ELSE fallbackDrivers
  IN  [i \in 1..Len(base) |-> EnrichDriver(base[i], activeMounts)]

\* ------------------------------------------------------------------------
\* Events CSV
\* ------------------------------------------------------------------------

H_raceid == <<"r","a","c","e","i","d">>

H_track == <<"t","r","a","c","k">>

H_date == <<"d","a","t","e">>

H_time == <<"t","i","m","e">>

\* getTime() of an Invalid Date; instants are whole minutes since the epoch.
NaN == -1

DigitVal(c) == CHOOSE n \in 0..9 : <<"0","1","2","3","4","5","6","7","8","9">>[n + 1] = c

AllDigits(s) == \A i \in 1..Len(s) : s[i] \in Digit

RECURSIVE NumOf(_)
NumOf(s) == IF s = <<>> THEN 0 ELSE NumOf(SubSeq(s, 1, Len(s) - 1)) * 10 + DigitVal(s[Len(s)])

\* Days from 1970-01-01 to the civil date y-m-d.
DaysFromCivil(y, m, d) ==
  LET yy == IF m <= 2 THEN y - 1 ELSE y
      era == yy \div 400
      yoe == yy - era * 400
      mp == IF m > 2 THEN m - 3 ELSE m + 9
      doy == (153 * mp + 2) \div 5 + d - 1
      doe == yoe * 365 + yoe \div 4 - yoe \div 100 + doy
  IN  era * 146097 + doe - 719468

DaysInMonth(y, m) ==
  IF m = 2 THEN (IF y % 4 = 0 /\ (y % 100 # 0 \/ y % 400 = 0) THEN 29 ELSE 28)
  ELSE IF m \in {4, 6, 9, 11} THEN 30 ELSE 31

\* new Date(`${date}T${time}:00-05:00`).getTime() in minutes: the date is
\* YYYY-MM-DD and the time HH:MM, read five hours behind UTC; NaN otherwise.
DateMinutes(date, time) ==
  LET d == Interp(date)
      t == Interp(time)
      shaped == /\ Len(d) = 10 /\ d[5] = "-" /\ d[8] = "-"
                /\ AllDigits(SubSeq(d, 1, 4)) /\ AllDigits(SubSeq(d, 6, 7))
                /\ AllDigits(SubSeq(d, 9, 10))
                /\ Len(t) = 5 /\ t[3] = ":"
                /\ AllDigits(SubSeq(t, 1, 2)) /\ AllDigits(SubSeq(t, 4, 5))
  IN  IF ~shaped THEN NaN
      ELSE LET y == NumOf(SubSeq(d, 1, 4))
               m == NumOf(SubSeq(d, 6, 7))
               dd == NumOf(SubSeq(d, 9, 10))
               hh == NumOf(SubSeq(t, 1, 2))
               mm == NumOf(SubSeq(t, 4, 5))
           IN  IF m < 1 \/ m > 12 \/ dd < 1 \/ dd > DaysInMonth(y, m) \/ hh > 23 \/ mm > 59
               THEN NaN
               ELSE DaysFromCivil(y, m, dd) * 1440 + hh * 60 + mm + 300

\* start.getTime() + minutes
AddMinutes(t, minutes) == IF t = NaN THEN NaN ELSE t + minutes

\* /(^|\s|-)TAG(\s|$)/i with a whitespace class on both sides.
TrackNamesClassWhitespace(track, tag) ==
  LET s == Interp(track)
  IN  \E p \in 1..Len(s) :
        /\ p + Len(tag) - 1 <= Len(s)
        /\ toUpperCase(SubSeq(s, p, p + Len(tag) - 1)) = tag
        /\ (p = 1 \/ s[p - 1] = "-" \/ s[p - 1] \in Whitespace)
        /\ (p + Len(tag) = Len(s) + 1 \/ s[p + Len(tag)] \in Whitespace)

\* /(^|\\s|-)TAG(\\s|$)/i.test(track): in the regular expression literal \\ is
\* a backslash character and s the letter, so the tag is delimited by the
\* start of the string, a hyphen or the two characters \s before it, and by
\* the two characters \s or the end of the string after it.
TrackNamesClass(track, tag) ==
  LET s == Interp(track)
  IN  \E p \in 1..Len(s) :
        /\ p + Len(tag) - 1 <= Len(s)
        /\ toUpperCase(SubSeq(s, p, p + Len(tag) - 1)) = tag
        /\ \/ p = 1
           \/ s[p - 1] = "-"
           \/ p >= 3 /\ s[p - 2] = "\\" /\ s[p - 1] \in {"s", "S"}
        /\ \/ p + Len(tag) = Len(s) + 1
           \/ /\ p + Len(tag) + 1 <= Len(s)
              /\ s[p + Len(tag)] = "\\"
              /\ s[p + Len(tag) + 1] \in {"s", "S"}

\* The records one data line contributes.
EventsOfLine(line, header) ==
  LET cols == parseCsvRow(line)
      iRaceId == indexOf(header, H_raceid)
      iTrack == indexOf(header, H_track)
      iDate == indexOf(header, H_date)
      iTime == indexOf(header, H_time)
      iKlass == indexOf(header, H_class)
      raceId == IF iRaceId >= 0 THEN At(cols, iRaceId) ELSE At(cols, 0)
      track == IF iTrack >= 0 THEN At(cols, iTrack) ELSE At(cols, 1)
      date == IF iDate >= 0 THEN At(cols, iDate) ELSE At(cols, 3)
      time == IF iTime >= 0 THEN At(cols, iTime) ELSE At(cols, 4)
      given == IF iKlass >= 0 THEN toUpperCase(StrOrEmpty(At(cols, iKlass))) ELSE <<>>
      klass == IF given # <<>> THEN given
               ELSE IF TrackNamesClass(track, <<"L","M","S","C">>) THEN <<"L","M","S","C">>
               ELSE IF TrackNamesClass(track, <<"P","L","M">>) THEN <<"P","L","M">>
               ELSE IF TrackNamesClass(track, <<"S","M","T">>) THEN <<"S","M","T">>
               ELSE <<>>
      baseStart == DateMinutes(date, time)
  IN  IF klass = <<>>
      THEN << [raceId |-> Interp(raceId) \o <<"-","P","L","M">>, classType |-> <<"P","L","M">>,
               track |-> track, start |-> baseStart],
              [raceId |-> Interp(raceId) \o <<"-","L","M","S","C">>, classType |-> <<"L","M","S","C">>,
               track |-> track, start |-> AddMinutes(baseStart, 120)] >>
      ELSE << [raceId |-> raceId, classType |-> klass, track |-> track, start |-> baseStart] >>

parseEvents(csvText) ==
  IF ~Truthy(csvText) THEN <<>>
  ELSE LET lines == FilterNonEmpty(SplitLines(csvText))
       IN  IF Len(lines) < 2 THEN <<>>
           ELSE Concat([i \in 1..(Len(lines) - 1) |-> EventsOfLine(lines[i + 1], HeaderOf(lines[1]))])

\* ------------------------------------------------------------------------
\* Live window
\* ------------------------------------------------------------------------

\* Minutes before the scheduled start at which an event becomes live.
PreRollMin == 30

\* Minutes after the scheduled start until which an event stays live.
PostRollMin == 360

\* InLiveWindow with a ten-minute pre-roll.
InLiveWindowTenMinutes(evt, now) ==
  evt.start # NaN /\ evt.start - 10 <= now /\ now <= evt.start + PostRollMin

\* Instants are whole minutes; an EventRecord is [raceId, classType, track, start].
\* Every comparison with an Invalid Date is false.
InLiveWindow(evt, now) ==
  evt.start # NaN /\ evt.start - PreRollMin <= now /\ now <= evt.start + PostRollMin

\* The Schedule screen's own window: minutes before the start from which a
\* row is marked live, and minutes after it until which it stays marked.
SchedulePreRollMin == 10

SchedulePostRollMin == 420

isLiveWindow(start, now) ==
  start # NaN /\ start - SchedulePreRollMin <= now /\ now <= start + SchedulePostRollMin

\* The live event that starts first.
EarliestActive(active) ==
  active[CHOOSE i \in 1..Len(active) : \A j \in 1..Len(active) :
           active[i].start < active[j].start \/ (active[i].start = active[j].start /\ i <= j)]

\* active[0]
FirstActive(active) == active[1]

computeLiveInfo(events, now) ==
  LET active == SelectSeq(events, LAMBDA e : InLiveWindow(e, now))
      live == Len(active) > 0
      activeClasses == Dedupe(FilterNonEmpty([i \in 1..Len(active) |-> active[i].classType]), <<>>)
  IN  [live |-> live,
       eventLabel |-> IF live
                      THEN (IF Truthy(FirstActive(active).track) THEN FirstActive(active).track ELSE <<"L","i","v","e"," ","e","v","e","n","t">>)
                      ELSE (IF Len(events) > 0 /\ Truthy(events[1].track) THEN events[1].track
                            ELSE <<"N","e","x","t"," ","e","v","e","n","t">>),
       activeClasses |-> activeClasses,
       activeRaceId |-> IF live THEN FirstActive(active).raceId ELSE Undef,
       activeClass |-> IF ~live THEN Undef
                       ELSE IF Truthy(FirstActive(active).classType) THEN FirstActive(active).classType
                       ELSE At(activeClasses, 0)]

\* ------------------------------------------------------------------------
\* Access state
\* ------------------------------------------------------------------------

LoggedOut == [loggedIn |-> FALSE, subscribed |-> FALSE, hasDayPass |-> FALSE]

\* A fetchAccess that trusts user-info whatever became of the session request.
FetchAccessStateIgnoringSession(raceId, resp) ==
  IF ~resp.infoOk THEN LoggedOut
  ELSE [loggedIn |-> resp.success, subscribed |-> resp.subscribed, hasDayPass |-> FALSE]

\* What one fetchAccess(raceId) call computes from the server's answers.
\* resp is [infoOk, sessOk, success, subscribed, passOk, passes, sid]: infoOk is
\* false when the /api/user-info request fails or its body is not JSON, sessOk
\* is false when the /api/session request fails, passOk is false when
\* /api/user-day-passes fails; passes are the event ids of the user's passes;
\* sid is the session id of /api/session (Undef when it has none).
FetchAccessState(raceId, resp) ==
  IF ~resp.infoOk \/ ~resp.sessOk THEN LoggedOut
  ELSE [loggedIn |-> resp.success, subscribed |-> resp.subscribed,
        hasDayPass |-> resp.success /\ Truthy(raceId) /\ resp.passOk
                       /\ \E p \in resp.passes : toUpperCase(p) = toUpperCase(raceId)]

\* The session id state after the call: setSessionId runs only with a session id.
FetchAccessSession(old, resp) ==
  IF resp.infoOk /\ resp.sessOk /\ Truthy(resp.sid) THEN resp.sid ELSE old

\* Access granted to every logged-in user.
hasAccessOfLoggedIn(auth) == auth.loggedIn

hasAccessOf(auth) == auth.loggedIn /\ (auth.subscribed \/ auth.hasDayPass)

\* ------------------------------------------------------------------------
\* Bounds and inputs of the Live screen
\* ------------------------------------------------------------------------

\* Taps (on driver cards and on the listen button) in one behaviour.
MaxTaps == 2

CsvOne == <<"D","r","i","v","e","r"," ","N","u","m","b","e","r",",","D","r","i","v","e","r"," ","N","a","m","e",",","C","l","a","s","s","\n","2","8",",","A","l",",","L","M","S","C">>

IceAl == <<"h","t","t","p",":","/","/","i","c","e",":","8","0","0","0","/","l","m","s","c","-","2","8","-","a","l",".","m","p","3">>

IceOther == <<"h","t","t","p",":","/","/","i","c","e",":","8","0","0","0","/","p","l","m","-","9","-","z","e","d",".","m","p","3","?","x","=","1">>

EventLmsc == [raceId |-> <<"R","1">>, classType |-> <<"L","M","S","C">>,
              track |-> <<"D","a","y","t","o","n","a">>, start |-> 600]

\* Drivers CSV bodies the server may return.
DriverTexts == {CsvOne, <<>>}

\* Icecast status documents the server may return.
IceJsons == { [kind |-> "none", list |-> <<>>],
              [kind |-> "array", list |-> <<[listenurl |-> IceAl]>>],
              [kind |-> "object", list |-> <<[listenurl |-> IceOther]>>] }

\* Parsed event lists and the instants at which load may run.
EventLists == { <<>>, <<EventLmsc>> }

NowValues == {400, 580}

\* The instants the wall clock passes through: before, inside and after the
\* live window of EventLmsc.
ClockValues == <<400, 580, 1000>>

\* Answers of the access endpoints.
AccessResponses ==
  { [infoOk |-> FALSE, sessOk |-> TRUE, success |-> FALSE, subscribed |-> FALSE,
     passOk |-> FALSE, passes |-> {}, sid |-> Undef],
    [infoOk |-> TRUE, sessOk |-> TRUE, success |-> FALSE, subscribed |-> FALSE,
     passOk |-> TRUE, passes |-> {}, sid |-> Undef],
    [infoOk |-> TRUE, sessOk |-> TRUE, success |-> TRUE, subscribed |-> FALSE,
     passOk |-> FALSE, passes |-> {}, sid |-> <<"s","1">>],
    [infoOk |-> TRUE, sessOk |-> TRUE, success |-> TRUE, subscribed |-> TRUE,
     passOk |-> TRUE, passes |-> {}, sid |-> <<"s","1">>],
    [infoOk |-> TRUE, sessOk |-> TRUE, success |-> TRUE, subscribed |-> FALSE,
     passOk |-> TRUE, passes |-> {<<"r","1">>}, sid |-> <<"s","1">>],
    [infoOk |-> TRUE, sessOk |-> FALSE, success |-> TRUE, subscribed |-> TRUE,
     passOk |-> TRUE, passes |-> {}, sid |-> <<"s","1">>],
    [infoOk |-> TRUE, sessOk |-> TRUE, success |-> TRUE, subscribed |-> TRUE,
     passOk |-> FALSE, passes |-> {}, sid |-> <<"s","1">>] }

\* ------------------------------------------------------------------------
\* State
\* ------------------------------------------------------------------------

VARIABLES
  mounted,          \* isMounted of the load effect (false after its cleanup)
  listOnly,         \* route.params.listOnly
  nav,              \* the screen navigated to from here ("none" while focused)
  loadPc,           \* load: "fetch" (requests pending), "access" (awaiting fetchAccess), "done"
  loadCtx,          \* load's locals kept across its awaits, and the outcome of its requests
  liveInfo, activeClass, drivers, loading, authState, sessionId,
  streamUrl, streamCandidates,
  currentDriver,    \* <<>> for null, else <<driver>>
  playing, playStatus, lastError,
  soundRef,         \* soundRef.current: 0 for null, else a handle
  loaded,           \* the handles that are loaded
  audible,          \* the loaded handles that are playing
  runs,             \* the loadAndPlay calls in flight
  stops,            \* handleTogglePlayback calls awaiting stopAsync
  taps,             \* taps made so far
  call, result,     \* a helper applied to drawn inputs, and what it returned
  server,           \* the server's account: [loggedIn, subscribed, passes, purchases]
  home,             \* the Home screen: its load effect, its auth state and its NavBar
  clock,            \* the wall clock, in minutes (it advances in SpecClock only)
  tracks,           \* the server's GET /api/tracks: clock, directory, cache, requests
  fetches           \* the fetchAccess calls of the Live screen: those in flight, and their order

liveVars == <<mounted, listOnly, nav, loadPc, loadCtx, liveInfo, activeClass, drivers, loading,
              authState, sessionId, streamUrl, streamCandidates, currentDriver,
              playing, playStatus, lastError, soundRef, loaded, audible, runs, stops, taps>>

vars == <<liveVars, call, result, server, home, clock, tracks, fetches>>

NoCall == [fn |-> "none"]

LiveInit ==
  /\ mounted = TRUE
  /\ listOnly \in BOOLEAN
  /\ nav = "none"
  /\ loadPc = "fetch"
  /\ loadCtx = [eventsOk |-> TRUE, driversOk |-> TRUE, iceOk |-> TRUE]
  /\ liveInfo = [live |-> FALSE, eventLabel |-> <<"C","h","e","c","k","i","n","g",".",".",".">>]
  /\ activeClass = Undef
  /\ drivers = fallbackDrivers
  /\ loading = TRUE
  /\ authState = LoggedOut
  /\ sessionId = Undef
  /\ streamUrl = <<>>
  /\ streamCandidates = <<>>
  /\ currentDriver = <<>>
  /\ playing = FALSE
  /\ playStatus = "idle"
  /\ lastError = <<>>
  /\ soundRef = 0
  /\ loaded = {}
  /\ audible = {}
  /\ runs = <<>>
  /\ stops = 0
  /\ taps = 0

\* The server's record of a user who has signed up and is logged out: the
\* session holds no userId, users.subscribed is 0, day_passes holds no row
\* (passes are the event ids of the rows) and no checkout has completed.
NewAccount == [loggedIn |-> FALSE, subscribed |-> FALSE, passes |-> {}, purchases |-> {}]

\* The Home screen as the user leaves it for the Live tab right after launch:
\* its load effect still awaits events.csv and its NavBar awaits user-info.
HomeInit ==
  [pc |-> "events", live |-> FALSE, auth |-> [loggedIn |-> FALSE, subscribed |-> FALSE],
   navPending |-> TRUE, navLoggedIn |-> FALSE]

\* now: Date.now(); dir: the directory; cache: slideshowCache; readAt: when the
\* cached listing was read from the directory; pending: the requests awaiting
\* readdir, each with the now it captured; made: requests so far; resp: the
\* last response.
TracksInit ==
  [now |-> 0, dir |-> <<>>, cache |-> [files |-> <<>>, timestamp |-> 0], readAt |-> 0,
   pending |-> <<>>, made |-> 0, resp |-> [status |-> 0, body |-> <<>>, cached |-> FALSE]]

\* No fetchAccess call was made yet: none is in flight, none was issued, the
\* call issued last has not returned, and the server has given no answer.
NoFetches == [inflight |-> {}, issued |-> 0, last |-> <<>>, answers |-> {}]

Init ==
  /\ LiveInit /\ call = NoCall /\ result = <<>>
  /\ server = NewAccount
  /\ home = HomeInit
  /\ clock = ClockValues[1]
  /\ tracks = TracksInit
  /\ fetches = NoFetches

\* ------------------------------------------------------------------------
\* Derived values of a render
\* ------------------------------------------------------------------------

hasAccess == hasAccessOf(authState)

showPlayer == ~(listOnly \/ ~liveInfo.live)

\* d.classList && d.classList.length ? d.classList : [d.classType]
ClassesOf(d) ==
  IF "classList" \in DOMAIN d /\ Len(d.classList) > 0 THEN d.classList ELSE <<d.classType>>

\* filteredDrivers with query '' and classFilter 'ALL' (the search row and the
\* class chips are not rendered while the player is shown).
DriverShown(d) ==
  IF liveInfo.live /\ "activeClasses" \in DOMAIN liveInfo /\ Len(liveInfo.activeClasses) > 0
  THEN \E i \in 1..Len(ClassesOf(d)) : \E j \in 1..Len(liveInfo.activeClasses) :
         toUpperCase(StrOrEmpty(ClassesOf(d)[i])) = toUpperCase(StrOrEmpty(liveInfo.activeClasses[j]))
  ELSE TRUE

IsActive(d) == "isActive" \in DOMAIN d /\ d.isActive

\* DriverCard: canPlay = driver.isActive && !locked, locked = showPlayer && !hasAccess
CardEnabled(d) == IsActive(d) /\ ~(showPlayer /\ ~hasAccess)

\* ------------------------------------------------------------------------
\* Playback handles (expo-av)
\* ------------------------------------------------------------------------

\* sound.unloadAsync()
Unload(h) == /\ loaded' = loaded \ {h}
             /\ audible' = audible \ {h}

\* The handle Audio.Sound.createAsync returns: one not in use.
FreshHandle ==
  LET used == loaded \cup {soundRef} \cup {runs[k].sound : k \in 1..Len(runs)}
  IN  CHOOSE h \in 1..(Cardinality(used) + 1) : h \notin used

DigitChar(n) == <<"0","1","2","3","4","5","6","7","8","9">>[n + 1]

\* `${label}: ${message}` of the catch block; the exception text is one token.
Diagnostic(i, n) ==
  LET label == IF n > 1 THEN <<"C","a","n","d","i","d","a","t","e">> \o <<" ", DigitChar(i), "/", DigitChar(n)>>
               ELSE <<"C","a","n","d","i","d","a","t","e">>
  IN  label \o <<":", " ", "<message>">>

\* ------------------------------------------------------------------------
\* load (the effect run at mount)
\* ------------------------------------------------------------------------

\* The sessionId that load passes to buildStreamCandidates: the value its
\* closure captured at the first render, useState(null).
LoadClosureSessionId == Undef

\* A join that settles for any one request.
JoinedOkAnyOne(eventsOk, driversOk, iceOk) == eventsOk \/ driversOk \/ iceOk

\* A join that waits for the two CSVs only.
JoinedOkIgnoringIcecast(eventsOk, driversOk, iceOk) == eventsOk /\ driversOk

\* Promise.all over the three requests and over the reading of their bodies:
\* it fulfils only when every one of them does.
JoinedOk(eventsOk, driversOk, iceOk) == eventsOk /\ driversOk /\ iceOk

\* The three requests settle. Any failure (a rejected fetch, an undecodable
\* body) rejects the joined promise and runs the catch block; otherwise the
\* events are parsed, liveInfo is set and fetchAccess is awaited. loadCtx
\* keeps which requests succeeded and the drivers CSV the server returned.
LoadFetchedAt(nows) ==
  /\ loadPc = "fetch"
  /\ \E eventsOk \in BOOLEAN, driversOk \in BOOLEAN, iceOk \in BOOLEAN :
     \E driverText \in DriverTexts :
       IF JoinedOk(eventsOk, driversOk, iceOk)
       THEN \E events \in EventLists, now \in nows, iceJson \in IceJsons :
              LET liveMeta == computeLiveInfo(events, now) IN
              /\ loadCtx' = [eventsOk |-> eventsOk, driversOk |-> driversOk, iceOk |-> iceOk,
                             events |-> events, liveMeta |-> liveMeta,
                             driverText |-> driverText, iceJson |-> iceJson]
              /\ IF mounted
                 THEN /\ liveInfo' = liveMeta
                      /\ activeClass' = liveMeta.activeClass
                      /\ loadPc' = "access"
                 ELSE /\ loadPc' = "done"
                      /\ UNCHANGED <<liveInfo, activeClass>>
              /\ UNCHANGED <<drivers, streamCandidates, streamUrl, loading>>
       ELSE /\ loadCtx' = [eventsOk |-> eventsOk, driversOk |-> driversOk, iceOk |-> iceOk,
                           driverText |-> IF driversOk THEN driverText ELSE Undef]
            /\ loadPc' = "done"
            /\ IF mounted
               THEN /\ liveInfo' = [live |-> FALSE, eventLabel |-> <<"O","f","f","l","i","n","e"," ","m","o","d","e">>]
                    /\ drivers' = fallbackDrivers
                    /\ streamCandidates' = <<>>
                    /\ streamUrl' = <<>>
                    /\ loading' = FALSE
               ELSE UNCHANGED <<liveInfo, drivers, streamCandidates, streamUrl, loading>>
            /\ UNCHANGED activeClass
  /\ UNCHANGED <<mounted, listOnly, nav, authState, sessionId, currentDriver, playing,
                 playStatus, lastError, soundRef, loaded, audible, runs, stops,
                 taps, call, result, server, home, clock, tracks>>

\* load, run at an instant that the clock of the model does not constrain.
LoadFetched == LoadFetchedAt(NowValues) /\ UNCHANGED fetches

\* candidates[0] || ''
FirstOrEmpty(list) == IF Len(list) > 0 THEN list[1] ELSE <<>>

\* driver.activePath || driver.plainMount
MountOf(d) == IF Truthy(Prop(d, "activePath")) THEN d.activePath ELSE Prop(d, "plainMount")

\* The candidates load stores: those of the first active driver when playback
\* is allowed, else none.
LoadCandidates(enrichedDrivers, accessState) ==
  LET actives == {i \in 1..Len(enrichedDrivers) : enrichedDrivers[i].isActive}
      allowPlay == loadCtx.liveMeta.live /\ ~listOnly /\ hasAccessOf(accessState)
  IN  IF actives # {} /\ allowPlay
      THEN buildStreamCandidates(
             MountOf(enrichedDrivers[CHOOSE i \in actives : \A j \in actives : i <= j]),
             LoadClosureSessionId)
      ELSE <<>>

\* fetchAccess answers with resp; load resolves the drivers' mounts and stores
\* the candidates of the first active driver.
LoadAccessDoneWith(resp) ==
  /\ loadPc = "access"
  /\ \E accessState \in {FetchAccessState(loadCtx.liveMeta.activeRaceId, resp)} :
     \E enrichedDrivers \in {EnrichDrivers(parseDrivers(loadCtx.driverText),
                                           parseActiveMounts(loadCtx.iceJson))} :
     \E candidates \in {LoadCandidates(enrichedDrivers, accessState)} :
       /\ authState' = accessState
       /\ sessionId' = FetchAccessSession(sessionId, resp)
       /\ drivers' = enrichedDrivers
       /\ streamCandidates' = candidates
       /\ streamUrl' = FirstOrEmpty(candidates)
  /\ loading' = IF mounted THEN FALSE ELSE loading
  /\ loadPc' = "done"
  /\ UNCHANGED <<mounted, listOnly, nav, loadCtx, liveInfo, activeClass, currentDriver, playing,
                 playStatus, lastError, soundRef, loaded, audible, runs, stops,
                 taps, call, result, server, home, clock, tracks>>

LoadAccessDone == (\E resp \in AccessResponses : LoadAccessDoneWith(resp)) /\ UNCHANGED fetches

\* useFocusEffect: the screen gains focus and fetchAccess(liveInfo.activeRaceId || null)
\* runs to completion.
FocusFetchAccessWith(resp) ==
  /\ mounted
  /\ authState' = FetchAccessState(Prop(liveInfo, "activeRaceId"), resp)
  /\ sessionId' = FetchAccessSession(sessionId, resp)
  /\ nav' = "none"
  /\ UNCHANGED <<mounted, listOnly, loadPc, loadCtx, liveInfo, activeClass, drivers, loading,
                 streamUrl, streamCandidates, currentDriver, playing, playStatus, lastError,
                 soundRef, loaded, audible, runs, stops, taps, call, result, server, home, clock, tracks, fetches>>

FocusFetchAccess == \E resp \in AccessResponses : FocusFetchAccessWith(resp)

\* The cleanup of the load effect.
Unmount ==
  /\ mounted
  /\ mounted' = FALSE
  /\ IF soundRef # 0 THEN Unload(soundRef) ELSE UNCHANGED <<loaded, audible>>
  /\ UNCHANGED <<listOnly, nav, loadPc, loadCtx, liveInfo, activeClass, drivers, loading,
                 authState, sessionId, streamUrl, streamCandidates, currentDriver, playing,
                 playStatus, lastError, soundRef, runs, stops, taps, call, result, server, home, clock, tracks, fetches>>

\* ------------------------------------------------------------------------
\* loadAndPlay
\* ------------------------------------------------------------------------

\* A call in flight is [urls, i, pc, sound, tried]: i is the loop index
\* (from 1), pc is "unload" (awaiting the previous handle's unloadAsync),
\* "create" (awaiting the probe and Audio.Sound.createAsync of candidate i) or
\* "created" (the handle exists; awaiting setIsMutedAsync, setVolumeAsync and
\* getStatusAsync); tried lists the candidates attempted so far as [idx, ok].

RemoveAt(s, k) == SubSeq(s, 1, k - 1) \o SubSeq(s, k + 1, Len(s))

\* A loop that stays on the candidate that failed.
NextCandidateSame(i) == i

\* The loop's i++.
NextCandidate(i) == i + 1

\* The call up to its first await. With a handle in soundRef it is unloaded
\* and awaited; otherwise the loop starts at once.
StartLoadAndPlay(urls) ==
  IF Len(urls) = 0
  THEN UNCHANGED <<playStatus, lastError, loaded, audible, runs>>
  ELSE IF soundRef # 0
  THEN /\ Unload(soundRef)
       /\ runs' = Append(runs, [urls |-> urls, i |-> 1, pc |-> "unload", sound |-> 0,
                                tried |-> <<>>])
       /\ UNCHANGED <<playStatus, lastError>>
  ELSE /\ playStatus' = "loading"
       /\ lastError' = <<>>
       /\ runs' = Append(runs, [urls |-> urls, i |-> 1, pc |-> "create", sound |-> 0,
                                tried |-> <<>>])
       /\ UNCHANGED <<loaded, audible>>

\* unloadAsync settles; the loop starts.
RunUnloaded(k) ==
  /\ runs[k].pc = "unload"
  /\ playStatus' = "loading"
  /\ lastError' = <<>>
  /\ runs' = [runs EXCEPT ![k].pc = "create"]
  /\ UNCHANGED <<mounted, listOnly, nav, loadPc, loadCtx, liveInfo, activeClass, drivers,
                 loading, authState, sessionId, streamUrl, streamCandidates, currentDriver,
                 playing, soundRef, loaded, audible, stops, taps, call, result, server, home, clock, tracks, fetches>>

\* createAsync resolves: the handle is loaded and, with shouldPlay, playing.
RunCreated(k) ==
  /\ runs[k].pc = "create"
  /\ LET h == FreshHandle IN
       /\ loaded' = loaded \cup {h}
       /\ audible' = audible \cup {h}
       /\ runs' = [runs EXCEPT ![k].pc = "created", ![k].sound = h,
                               ![k].tried = Append(@, [idx |-> runs[k].i, ok |-> TRUE])]
  /\ UNCHANGED <<mounted, listOnly, nav, loadPc, loadCtx, liveInfo, activeClass, drivers,
                 loading, authState, sessionId, streamUrl, streamCandidates, currentDriver,
                 playing, playStatus, lastError, soundRef, stops, taps, call, result, server, home, clock, tracks, fetches>>

\* The rest of the try block: the handle is stored and the screen shows playing.
RunSettled(k) ==
  /\ runs[k].pc = "created"
  /\ soundRef' = runs[k].sound
  /\ playing' = TRUE
  /\ playStatus' = "playing"
  /\ streamUrl' = withCacheBuster(runs[k].urls[runs[k].i])
  /\ runs' = RemoveAt(runs, k)
  /\ UNCHANGED <<mounted, listOnly, nav, loadPc, loadCtx, liveInfo, activeClass, drivers,
                 loading, authState, sessionId, streamCandidates, currentDriver,
                 lastError, loaded, audible, stops, taps, call, result, server, home, clock, tracks, fetches>>

\* createAsync rejects: the catch block, then (unless this was the last
\* candidate) the top of the next iteration up to its await.
RunFailed(k) ==
  /\ runs[k].pc = "create"
  /\ LET r == runs[k]
         n == Len(r.urls)
         tried == Append(r.tried, [idx |-> r.i, ok |-> FALSE])
     IN  IF r.i = n
         THEN /\ lastError' = Diagnostic(r.i, n)
              /\ playStatus' = "error"
              /\ playing' = FALSE
              /\ runs' = RemoveAt(runs, k)
         ELSE /\ lastError' = <<>>
              /\ playStatus' = "loading"
              /\ runs' = [runs EXCEPT ![k].i = NextCandidate(r.i), ![k].tried = tried]
              /\ UNCHANGED playing
  /\ UNCHANGED <<mounted, listOnly, nav, loadPc, loadCtx, liveInfo, activeClass, drivers,
                 loading, authState, sessionId, streamUrl, streamCandidates, currentDriver,
                 soundRef, loaded, audible, stops, taps, call, result, server, home, clock, tracks, fetches>>

\* ------------------------------------------------------------------------
\* Taps
\* ------------------------------------------------------------------------

handleSelectDriver(d) ==
  IF (listOnly \/ ~liveInfo.live) \/ (~IsActive(d) \/ ~hasAccess)
  THEN UNCHANGED <<streamCandidates, streamUrl, currentDriver, playStatus, lastError,
                   loaded, audible, runs>>
  ELSE LET candidates == buildStreamCandidates(MountOf(d), sessionId) IN
       /\ streamCandidates' = candidates
       /\ streamUrl' = FirstOrEmpty(candidates)
       /\ currentDriver' = <<d>>
       /\ StartLoadAndPlay(candidates)

\* A tap on the card of driver k of the rendered list.
TapDriver(k) ==
  /\ mounted /\ nav = "none" /\ ~loading
  /\ taps < MaxTaps
  /\ taps' = taps + 1
  /\ DriverShown(drivers[k])
  /\ IF CardEnabled(drivers[k])
     THEN handleSelectDriver(drivers[k])
     ELSE UNCHANGED <<streamCandidates, streamUrl, currentDriver, playStatus, lastError,
                      loaded, audible, runs>>
  /\ UNCHANGED <<mounted, listOnly, nav, loadPc, loadCtx, liveInfo, activeClass, drivers,
                 loading, authState, sessionId, playing, soundRef, stops,
                 call, result, server, home, clock, tracks, fetches>>

handleTogglePlayback ==
  IF ~Truthy(streamUrl)
  THEN UNCHANGED <<playStatus, lastError, loaded, audible, runs, stops>>
  ELSE IF soundRef # 0 /\ playing
  THEN /\ audible' = audible \ {soundRef}
       /\ stops' = stops + 1
       /\ UNCHANGED <<playStatus, lastError, loaded, runs>>
  ELSE /\ StartLoadAndPlay(IF Len(streamCandidates) > 0 THEN streamCandidates
                           ELSE <<streamUrl>>)
       /\ UNCHANGED stops

\* A tap on the listen button: handleTogglePlayback with access, else the
\* Subscribe screen (logged in) or the Login screen.
ListenPress ==
  /\ mounted /\ nav = "none" /\ showPlayer
  /\ taps < MaxTaps
  /\ taps' = taps + 1
  /\ IF hasAccess
     THEN /\ Truthy(streamUrl)
          /\ handleTogglePlayback
          /\ UNCHANGED nav
     ELSE /\ nav' = IF authState.loggedIn THEN "Subscribe" ELSE "Login"
          /\ UNCHANGED <<playStatus, lastError, loaded, audible, runs, stops>>
  /\ UNCHANGED <<mounted, listOnly, loadPc, loadCtx, liveInfo, activeClass, drivers, loading,
                 authState, sessionId, streamUrl, streamCandidates, currentDriver, playing,
                 soundRef, call, result, server, home, clock, tracks, fetches>>

\* stopAsync settles: the rest of the stop branch of handleTogglePlayback.
StopDone ==
  /\ stops > 0
  /\ stops' = stops - 1
  /\ playing' = FALSE
  /\ playStatus' = "idle"
  /\ UNCHANGED <<mounted, listOnly, nav, loadPc, loadCtx, liveInfo, activeClass, drivers,
                 loading, authState, sessionId, streamUrl, streamCandidates, currentDriver,
                 lastError, soundRef, loaded, audible, runs, taps, call, result, server, home, clock, tracks, fetches>>

Next ==
  \/ LoadFetched
  \/ LoadAccessDone
  \/ FocusFetchAccess
  \/ Unmount
  \/ \E k \in 1..Len(drivers) : TapDriver(k)
  \/ ListenPress
  \/ StopDone
  \/ \E k \in 1..Len(runs) : RunUnloaded(k)
  \/ \E k \in 1..Len(runs) : RunCreated(k)
  \/ \E k \in 1..Len(runs) : RunSettled(k)
  \/ \E k \in 1..Len(runs) : RunFailed(k)

Spec == Init /\ [][Next]_vars

\* ------------------------------------------------------------------------
\* The helpers applied to drawn inputs
\* ------------------------------------------------------------------------

\* Mount paths handed to buildStreamCandidates.
MountInputs ==
  { Undef, <<>>,
    <<"/","l","m","s","c","-","2","8","-","a","l",".","m","p","3">>,
    <<"/","i","c","e","c","a","s","t","/","l","m","s","c","-","2","8","-","a","l",".","m","p","3">>,
    <<"l","m","s","c","-","2","8","-","a","l">>,
    <<"/","a",".","M","P","3">>,
    <<"/","a",".","m","p","3","?","x","=","1">>,
    <<"/","i","c","e","c","a","s","t">>,
    <<"/","i","c","e","c","a","s","t","/">>,
    <<".","m","p","3">>,
    <<"?","q">>,
    <<"/","a",".","o","g","g">>,
    <<"/","a",".","m","p","3",".","m","p","3">>,
    <<"/","i","c","e","c","a","s","t","/","i","c","e","c","a","s","t","/","a",".","m","p","3">>,
    <<"/","a"," ","b",".","m","p","3">>,
    <<"/">> }

\* Session ids: null, '', and two ids.
SessionInputs == { Undef, <<>>, <<"s","1">>, <<"a","/","b","&","c">> }

CsvA == <<"D","r","i","v","e","r"," ","N","u","m","b","e","r",",","D","r","i","v","e","r"," ","N","a","m","e",",","C","l","a","s","s","\n","2","8",",","A","l",",","L","M","S","C","\n","2",",","B","o",",","L","M","S","C">>

CsvB == <<"D","r","i","v","e","r"," ","N","u","m","b","e","r",",","D","r","i","v","e","r"," ","N","a","m","e",",","C","l","a","s","s","\r","\n","7",",","C","y",",","\"","P","L","M","/","L","M","S","C","\"","\r","\n","2","8",",","A","l",",","L","M","S","C","\r","\n">>

CsvPos == <<"n",",","d","\n","2","8",",","A","l",",","x",",","y",",","z",",","l","m","s","c","\n","2">>

CsvHeaderOnly == <<"D","r","i","v","e","r"," ","N","u","m","b","e","r",",","D","r","i","v","e","r"," ","N","a","m","e",",","C","l","a","s","s","\n">>

\* Drivers CSV bodies for mount resolution.
\* Rows with empty cells, and two rows of one driver that differ elsewhere.
CsvEmptyCells == <<"D","r","i","v","e","r"," ","N","u","m","b","e","r",",","D","r","i","v","e","r"," ","N","a","m","e",",","C","l","a","s","s",",","n","u","m","b","e","r","_","l","o","g","o","\n",",",",",",","\n","9",",",",",",","x","\n",",","Z","e","d",",","p","l","m",",","\n","-",",","-","-",",","L","M","S","C",",","\n","2","8",",","A","l",",","L","M","S","C",",","a",".","p","n","g","\n","2","8",",","A","l",",","\"","L","M","S","C",",","P","L","M","\"",",","b",".","p","n","g">>

ResolveDriverTexts == {CsvA, CsvB, CsvPos, CsvOne, CsvHeaderOnly, CsvEmptyCells, <<>>}

IceAlIcecast == <<"h","t","t","p","s",":","/","/","r","a","c","e","s","c","a","n",".","r","a","c","i","n","g","/","i","c","e","c","a","s","t","/","l","m","s","c","-","2","8","-","a","l",".","m","p","3">>

IceBoRelative == <<"/","L","M","S","C","-","2","-","b","o",".","m","p","3">>

IceAlt == <<"h","t","t","p",":","/","/","i","c","e",":","8","0","0","0","/","l","i","v","e","/","l","m","s","c","-","2","8",".","m","p","3">>

IceNotMp3 == <<"h","t","t","p",":","/","/","i","c","e",":","8","0","0","0","/","s","t","a","t","u","s",".","x","s","l">>

\* Icecast status documents for mount resolution.
ResolveIceJsons ==
  { [kind |-> "none", list |-> <<>>],
    [kind |-> "array", list |-> <<>>],
    [kind |-> "array", list |-> <<[listenurl |-> IceAl]>>],
    [kind |-> "object", list |-> <<[listenurl |-> IceAlIcecast]>>],
    [kind |-> "array", list |-> <<[listenurl |-> IceAlIcecast], [listenurl |-> IceAl]>>],
    [kind |-> "array", list |-> <<[listenurl |-> IceAlt], [listenurl |-> IceAl]>>],
    [kind |-> "array", list |-> <<[listenurl |-> IceOther], [listenurl |-> IceAlt],
                                  [listenurl |-> IceAlIcecast]>>],
    [kind |-> "object", list |-> <<[listen_url |-> IceBoRelative]>>],
    [kind |-> "array", list |-> <<[listenurl |-> IceOther], [listenurl |-> IceOther]>>],
    [kind |-> "array", list |-> <<[listenurl |-> IceNotMp3], [server_name |-> <<"x">>]>>] }

\* Events of one weekend, and lists of them in and out of start order.
EventPlm == [raceId |-> <<"R","1","-","P","L","M">>, classType |-> <<"P","L","M">>, track |-> <<"D","a","y","t","o","n","a">>, start |-> 600]

EventLmscLater == [raceId |-> <<"R","1","-","L","M","S","C">>, classType |-> <<"L","M","S","C">>, track |-> <<"D","a","y","t","o","n","a">>, start |-> 720]

EventSmt == [raceId |-> <<"R","2">>, classType |-> <<"S","M","T">>, track |-> <<"S","e","b","r","i","n","g">>, start |-> 200]

WindowEventLists == { <<>>, <<EventPlm>>, <<EventPlm, EventLmscLater>>,
                      <<EventLmscLater, EventPlm>>, <<EventLmscLater, EventSmt>>,
                      <<EventSmt, EventLmscLater, EventPlm>> }

\* Instants around the edges of both screens' windows.
WindowNows == {100, 169, 170, 190, 200, 560, 569, 570, 580, 589, 590, 600, 620,
               689, 690, 710, 960, 961, 1020, 1021, 1080, 1081, 1140, 1141}

\* computeLiveInfo of the Live screen and the Schedule screen's isLiveWindow
\* of every row, on the same events at the same instant.
CallLiveWindows ==
  /\ \E events \in WindowEventLists, now \in WindowNows :
       /\ call' = [fn |-> "liveWindows", events |-> events, now |-> now]
       /\ result' = [liveInfo |-> computeLiveInfo(events, now),
                     scheduleLive |-> [i \in 1..Len(events) |-> isLiveWindow(events[i].start, now)]]
  /\ UNCHANGED <<liveVars, server, home, clock, tracks, fetches>>

\* Bodies of /events.csv.
EventsNoClass == <<"r","a","c","e","I","d",",","t","r","a","c","k",",","s","e","r","i","e","s",",","d","a","t","e",",","t","i","m","e","\n","R","1",",","D","a","y","t","o","n","a"," ","-"," ","L","M","S","C",",","I","M","S","A",",","2","0","2","5","-","0","3","-","1","5",",","1","4",":","3","0">>

EventsHyphenLmsc == <<"r","a","c","e","I","d",",","t","r","a","c","k",",","s","e","r","i","e","s",",","d","a","t","e",",","t","i","m","e","\n","R","1",",","D","a","y","t","o","n","a","-","L","M","S","C",",","I","M","S","A",",","2","0","2","5","-","0","3","-","1","5",",","1","4",":","3","0">>

EventsWithClass == <<"r","a","c","e","I","d",",","t","r","a","c","k",",","d","a","t","e",",","t","i","m","e",",","c","l","a","s","s","\n","R","2",",","S","e","b","r","i","n","g",",","2","0","2","5","-","0","3","-","1","6",",","0","9",":","0","0",",","s","m","t">>

EventsPositional == <<"i","d",",","n","a","m","e",",","s","e","r","i","e","s",",","d","a","y",",","c","l","o","c","k","\n","R","3",",","P","L","M",",","I","M","S","A",",","2","0","2","4","-","0","2","-","2","9",",","2","3",":","4","5">>

EventsShortRow == <<"r","a","c","e","I","d",",","t","r","a","c","k",",","d","a","t","e",",","t","i","m","e","\n","R","4",",","R","o","a","d"," ","A","m","e","r","i","c","a">>

EventsTwoRows == <<"r","a","c","e","I","d",",","t","r","a","c","k",",","d","a","t","e",",","t","i","m","e","\r","\n","R","5",",","D","a","y","t","o","n","a"," ","-"," ","L","M","S","C",",","2","0","2","5","-","0","3","-","1","5",",","1","4",":","3","0","\r","\n","\r","\n","R","6",",","S","e","b","r","i","n","g"," ","S","M","T",",","2","0","2","5","-","1","2","-","3","1",",","0","0",":","0","5","\r","\n">>

EventsHeaderOnly == <<"r","a","c","e","I","d",",","t","r","a","c","k",",","d","a","t","e",",","t","i","m","e">>

EventsTimeByPosition == <<"t","r","a","c","k",",","r","a","c","e","I","d",",","c","l","a","s","s",",","d","a","t","e","\n","S","e","b","r","i","n","g",",","R","7",",","s","m","t",",","2","0","2","5","-","0","3","-","1","6",",","0","9",":","0","0">>

EventTexts == {EventsNoClass, EventsHyphenLmsc, EventsWithClass, EventsPositional,
               EventsShortRow, EventsTwoRows, EventsHeaderOnly, EventsTimeByPosition, <<>>}

CallParseEvents ==
  /\ \E csv \in EventTexts :
       /\ call' = [fn |-> "parseEvents", csvText |-> csv]
       /\ result' = parseEvents(csv)
  /\ UNCHANGED <<liveVars, server, home, clock, tracks, fetches>>

\* Values and fallbacks slugify is applied to (Undef: the argument is omitted).
SlugValues == { Undef,
                <<"L","M","S","C">>,
                <<>>,
                <<"-","-">>,
                <<" "," ">>,
                <<" ","a"," "," ","b"," ">>,
                <<"A","l"," ","U","n","s","e","r"," ","J","r",".">>,
                <<"2","8">>,
                <<"-","x","-">>,
                <<"A","_","b">>,
                <<"l","m","s","c","-","2","8","-","a","l">>,
                <<"#","9"," ","(","P","L","M",")">>,
                <<".",".",".">> }

SlugFallbacks == { Undef, <<>>, <<"c","l","a","s","s">>, <<"n","a">>, <<"d","r","i","v","e","r">> }

\* slugify of a value, and slugify of what it returned.
CallSlugify ==
  /\ \E value \in SlugValues, fallback \in SlugFallbacks :
       /\ call' = [fn |-> "slugify", value |-> value, fallback |-> fallback]
       /\ result' = [first |-> slugify(value, fallback),
                     again |-> slugify(slugify(value, fallback), fallback)]
  /\ UNCHANGED <<liveVars, server, home, clock, tracks, fetches>>

\* Class cells of a drivers CSV (Undef: the line has no such column).
ClassValues == { Undef, <<>>,
                 <<"L","M","S","C">>,
                 <<"l","m","s","c"," ","p","l","m">>,
                 <<"[","L","M","S","C",","," ","P","L","M","]">>,
                 <<"p","l","m","/","l","m","s","c">>,
                 <<" ",";"," ">>,
                 <<"[","]">>,
                 <<"s","m","t","|","p","l","m",";","l","m","s","c">>,
                 <<"a","1"," ","b">>,
                 <<"L","a","t","e"," ","M","o","d","e","l">>,
                 <<" "," ">> }

CallNormalizeClassList ==
  /\ \E value \in ClassValues :
       /\ call' = [fn |-> "normalizeClassList", value |-> value]
       /\ result' = normalizeClassList(value)
  /\ UNCHANGED <<liveVars, server, home, clock, tracks, fetches>>

CallBuildStreamCandidates ==
  /\ \E m \in MountInputs, s \in SessionInputs :
       /\ call' = [fn |-> "buildStreamCandidates", mountPath |-> m, sessionId |-> s]
       /\ result' = buildStreamCandidates(m, s)
  /\ UNCHANGED <<liveVars, server, home, clock, tracks, fetches>>

\* The mount resolution of load on a drivers CSV and an Icecast status.
CallEnrichDrivers ==
  /\ \E csv \in ResolveDriverTexts, ice \in ResolveIceJsons :
       LET parsed == parseDrivers(csv)
           mounts == parseActiveMounts(ice)
       IN  /\ call' = [fn |-> "enrichedDrivers", driverText |-> csv, iceJson |-> ice]
           /\ result' = [parsedDrivers |-> parsed, activeMounts |-> mounts,
                         drivers |-> EnrichDrivers(parsed, mounts)]
  /\ UNCHANGED <<liveVars, server, home, clock, tracks, fetches>>

DataNext ==
  \/ CallBuildStreamCandidates
  \/ CallEnrichDrivers
  \/ CallLiveWindows
  \/ CallParseEvents
  \/ CallSlugify
  \/ CallNormalizeClassList

SpecData == Init /\ [][DataNext]_vars

\* ------------------------------------------------------------------------
\* Focus changes between the Home screen, the Live screen and the account
\* screens (SpecFocus). The requests succeed and answer with the server's
\* account state at the time they complete.
\* ------------------------------------------------------------------------

\* What the server may report of the account.
ServerStates ==
  { NewAccount,
    [NewAccount EXCEPT !.loggedIn = TRUE],
    [NewAccount EXCEPT !.loggedIn = TRUE, !.subscribed = TRUE,
                       !.purchases = {[plan |-> "unlimited"]}] }

\* The answers the access endpoints give for an account state.
\* Without a session /api/user-info answers 401 {success: false}.
ServerResponse(s) ==
  [infoOk |-> TRUE, sessOk |-> TRUE, success |-> s.loggedIn,
   subscribed |-> s.loggedIn /\ s.subscribed,
   passOk |-> TRUE, passes |-> s.passes, sid |-> <<"s","1">>]

\* HomeScreen load: events.csv answered; liveInfo is set.
HomeEventsDone ==
  /\ home.pc = "events"
  /\ \E live \in BOOLEAN : home' = [home EXCEPT !.pc = "userinfo", !.live = live]
  /\ UNCHANGED <<liveVars, call, result, server, clock, tracks, fetches>>

\* HomeScreen load: /api/user-info answered; auth is set. The effect has no
\* dependencies: it runs at mount only.
HomeUserInfoDone ==
  /\ home.pc = "userinfo"
  /\ home' = [home EXCEPT !.pc = "done",
                          !.auth = [loggedIn |-> server.loggedIn,
                                    subscribed |-> server.subscribed]]
  /\ UNCHANGED <<liveVars, call, result, server, clock, tracks, fetches>>

\* The Home tab gains focus: the focus effect of its NavBar calls loadSession.
GoHome ==
  /\ nav # "Home"
  /\ nav' = "Home"
  /\ home' = [home EXCEPT !.navPending = TRUE]
  /\ UNCHANGED <<mounted, listOnly, loadPc, loadCtx, liveInfo, activeClass, drivers, loading,
                 authState, sessionId, streamUrl, streamCandidates, currentDriver, playing,
                 playStatus, lastError, soundRef, loaded, audible, runs, stops, taps,
                 call, result, server, clock, tracks, fetches>>

\* NavBar loadSession: /api/user-info answered; user is set.
NavBarLoaded ==
  /\ home.navPending
  /\ home' = [home EXCEPT !.navPending = FALSE, !.navLoggedIn = server.loggedIn]
  /\ UNCHANGED <<liveVars, call, result, server, clock, tracks, fetches>>

\* The user opens the Login screen from the Home or the Live tab.
GoLogin ==
  /\ nav \in {"Home", "none"}
  /\ nav' = "Login"
  /\ UNCHANGED <<mounted, listOnly, loadPc, loadCtx, liveInfo, activeClass, drivers, loading,
                 authState, sessionId, streamUrl, streamCandidates, currentDriver, playing,
                 playStatus, lastError, soundRef, loaded, audible, runs, stops, taps,
                 call, result, server, home, clock, tracks, fetches>>

\* On the Login or the Subscribe screen the user logs in, logs out or subscribes.
ChangeAccount ==
  /\ nav \in {"Login", "Subscribe"}
  /\ \E s \in ServerStates \ {server} : server' = s
  /\ UNCHANGED <<liveVars, call, result, home, clock, tracks, fetches>>

\* The Live tab gains focus again: its focus effect calls fetchAccess.
GoLive ==
  /\ nav # "none"
  /\ FocusFetchAccessWith(ServerResponse(server))

\* The fetchAccess call of load answers.
LoadAccessServed == LoadAccessDoneWith(ServerResponse(server)) /\ UNCHANGED fetches

FocusNext ==
  \/ HomeEventsDone
  \/ HomeUserInfoDone
  \/ NavBarLoaded
  \/ GoHome
  \/ GoLogin
  \/ ChangeAccount
  \/ GoLive
  \/ LoadFetched
  \/ LoadAccessServed

SpecFocus == Init /\ [][FocusNext]_vars

\* ------------------------------------------------------------------------
\* Purchases on the server and the access they give (SpecAccount)
\* ------------------------------------------------------------------------

\* Event ids a day pass can be bought for.
PassEvents == { <<"R","1">>, <<"R","2">>, <<"r","3">> }

\* Race ids the Live screen may ask access for (null when nothing is live).
RaceIds == { Undef, <<"R","1">>, <<"R","2">>, <<"R","3">> }

\* POST /login and POST /logout.
Login ==
  /\ ~server.loggedIn
  /\ server' = [server EXCEPT !.loggedIn = TRUE]
  /\ UNCHANGED <<liveVars, call, result, home, clock, tracks, fetches>>

Logout ==
  /\ server.loggedIn
  /\ server' = [server EXCEPT !.loggedIn = FALSE]
  /\ UNCHANGED <<liveVars, call, result, home, clock, tracks, fetches>>

\* GET /api/handle-stripe-success for a paid checkout of the given plan: a
\* day pass inserts its event into day_passes; every plan then sets
\* users.subscribed = 1.
HandleStripeSuccess(plan, eventId) ==
  /\ server.loggedIn
  /\ server' = [server EXCEPT
                  !.passes = IF plan = "day-pass" THEN @ \cup {eventId} ELSE @,
                  !.subscribed = TRUE,
                  !.purchases = @ \cup {IF plan = "day-pass"
                                        THEN [plan |-> plan, eventId |-> eventId]
                                        ELSE [plan |-> plan]}]
  /\ UNCHANGED <<liveVars, call, result, home, clock, tracks, fetches>>

DayPassCheckout == \E e \in PassEvents : HandleStripeSuccess("day-pass", e)

UnlimitedCheckout == HandleStripeSuccess("unlimited", Undef)

\* fetchAccess(raceId) against the server as it is.
CallFetchAccess ==
  /\ \E raceId \in RaceIds :
       /\ call' = [fn |-> "fetchAccess", raceId |-> raceId, server |-> server]
       /\ result' = FetchAccessState(raceId, ServerResponse(server))
  /\ UNCHANGED <<liveVars, server, home, clock, tracks, fetches>>

AccountNext ==
  \/ Login
  \/ Logout
  \/ DayPassCheckout
  \/ UnlimitedCheckout
  \/ CallFetchAccess

SpecAccount == Init /\ [][AccountNext]_vars

\* ------------------------------------------------------------------------
\* The Live screen while the clock advances (SpecClock)
\* ------------------------------------------------------------------------

\* Time passes: the clock reaches a later instant.
Tick ==
  /\ \E k \in 1..Len(ClockValues) : clock < ClockValues[k] /\ clock' = ClockValues[k]
  /\ UNCHANGED <<liveVars, call, result, server, home, tracks, fetches>>

\* The three requests of load settle now: computeLiveInfo reads the clock.
LoadFetchedNow == LoadFetchedAt({clock}) /\ UNCHANGED <<clock, fetches>>

ClockNext ==
  \/ Tick
  \/ LoadFetchedNow
  \/ LoadAccessDone
  \/ FocusFetchAccess

\* The steps by which load moves on, named by their effect on loadPc: the
\* steps LoadFetchedNow and LoadAccessDone of ClockNext, and no other.
LoadRequestsSettle == loadPc = "fetch" /\ loadPc' \in {"access", "done"}

LoadAccessSettles == loadPc = "access" /\ loadPc' = "done"

\* Pending requests settle; nothing makes the clock or the user move.
SpecClock ==
  Init /\ [][ClockNext]_vars /\ WF_loadPc(LoadRequestsSettle) /\ WF_loadPc(LoadAccessSettles)

\* ------------------------------------------------------------------------
\* Overlapping fetchAccess calls (SpecOverlap)
\* ------------------------------------------------------------------------

\* fetchAccess awaits its requests and calls setAuthState when they have
\* answered; nothing orders the answers of two calls. A call in flight is
\* [id, by, raceId]: id is its rank among the calls issued, by is "focus" or
\* "load", raceId is the argument it was called with.

\* The number of calls issued after which the focus effect runs no more.
MaxFetches == 3

\* One more call is issued.
Issue(f, by, raceId) ==
  [f EXCEPT !.inflight = @ \cup {[id |-> f.issued + 1, by |-> by, raceId |-> raceId]},
            !.issued = @ + 1,
            !.last = <<>>]

\* Call c returns state, computed from the answers resp: it leaves the calls
\* in flight, and when it is the call issued last its result is kept.
Settle(f, c, state, resp) ==
  [f EXCEPT !.inflight = @ \ {c},
            !.last = IF c.id = f.issued THEN <<state>> ELSE @,
            !.answers = @ \cup {resp}]

\* load's requests settle, and load calls fetchAccess(liveMeta.activeRaceId).
LoadIssuesFetchAccess ==
  /\ LoadFetchedAt(NowValues)
  /\ fetches' = IF loadPc' = "access"
                THEN Issue(fetches, "load", loadCtx'.liveMeta.activeRaceId)
                ELSE fetches

\* The focus effect runs (at mount, on a later focus, or after
\* liveInfo.activeRaceId changed) and calls fetchAccess(liveInfo.activeRaceId || null).
FocusIssuesFetchAccess ==
  /\ mounted
  /\ fetches.issued < MaxFetches
  /\ fetches' = Issue(fetches, "focus", Prop(liveInfo, "activeRaceId"))
  /\ UNCHANGED <<liveVars, call, result, server, home, clock, tracks>>

\* The requests of a call of the focus effect answer: setSessionId, setAuthState.
FocusFetchSettles ==
  /\ mounted
  /\ \E c \in fetches.inflight, resp \in AccessResponses :
       /\ c.by = "focus"
       /\ authState' = FetchAccessState(c.raceId, resp)
       /\ sessionId' = FetchAccessSession(sessionId, resp)
       /\ fetches' = Settle(fetches, c, authState', resp)
  /\ UNCHANGED <<mounted, listOnly, nav, loadPc, loadCtx, liveInfo, activeClass, drivers, loading,
                 streamUrl, streamCandidates, currentDriver, playing, playStatus, lastError,
                 soundRef, loaded, audible, runs, stops, taps, call, result, server, home,
                 clock, tracks>>

\* The requests of load's call answer, and load goes on with its result.
LoadFetchSettles ==
  /\ \E c \in fetches.inflight, resp \in AccessResponses :
       /\ c.by = "load"
       /\ LoadAccessDoneWith(resp)
       /\ fetches' = Settle(fetches, c, authState', resp)

OverlapNext ==
  \/ LoadIssuesFetchAccess
  \/ FocusIssuesFetchAccess
  \/ FocusFetchSettles
  \/ LoadFetchSettles

SpecOverlap == Init /\ [][OverlapNext]_vars

\* ------------------------------------------------------------------------
\* GET /api/tracks of the server (SpecTracks)
\* ------------------------------------------------------------------------

\* cacheDuration, in seconds.
CacheDuration == 60

\* The requests made, and the last instant of the server's clock.
MaxRequests == 3

MaxNow == 120

\* By how many seconds the clock moves at once.
TickSteps == {30, 59}

ImageExts == { <<".","j","p","g">>, <<".","j","p","e","g">>, <<".","p","n","g">>, <<".","g","i","f">> }

SlideshowPrefix == <<"/","s","t","a","t","i","c","/","i","m","a","g","e","s","/","s","l","i","d","e","s","h","o","w","_","i","m","a","g","e","s","/">>

\* files.filter((file) => /\.(jpg|jpeg|png|gif)$/i.test(file)).map(...)
ImageFiles(files) ==
  LET images == SelectSeq(files, LAMBDA f : \E e \in ImageExts : endsWith(toLowerCase(f), e))
  IN  [i \in 1..Len(images) |-> SlideshowPrefix \o images[i]]

\* Listings of config.slideshowDir.
DirListings == { <<>>, <<<<"a",".","j","p","g">>, <<"n",".","t","x","t">>, <<"B",".","P","N","G">>>> }

\* A cache that is served whatever its age.
CacheServedAnyAge(cache, now) == Len(cache.files) > 0

\* slideshowCache.files.length && now - slideshowCache.timestamp < cacheDuration
CacheServed(cache, now) == Len(cache.files) > 0 /\ now - cache.timestamp < CacheDuration

TracksTick ==
  /\ \E d \in TickSteps : tracks.now + d <= MaxNow /\ tracks' = [tracks EXCEPT !.now = @ + d]
  /\ UNCHANGED <<liveVars, call, result, server, home, clock, fetches>>

\* Images are added to or removed from the directory.
DirChange ==
  /\ \E listing \in DirListings \ {tracks.dir} : tracks' = [tracks EXCEPT !.dir = listing]
  /\ UNCHANGED <<liveVars, call, result, server, home, clock, fetches>>

\* A request arrives: it is answered from the cache, or it starts readdir.
TracksRequest ==
  /\ tracks.made < MaxRequests
  /\ IF CacheServed(tracks.cache, tracks.now)
     THEN tracks' = [tracks EXCEPT !.made = @ + 1,
                                   !.resp = [status |-> 200, body |-> tracks.cache.files,
                                             cached |-> TRUE]]
     ELSE tracks' = [tracks EXCEPT !.made = @ + 1,
                                   !.pending = Append(@, [now |-> tracks.now, stage |-> "reading",
                                                          files |-> <<>>, readAt |-> 0])]
  /\ UNCHANGED <<liveVars, call, result, server, home, clock, fetches>>

\* fsp.readdir lists the directory for request k.
TracksReadDir(k) ==
  /\ k \in 1..Len(tracks.pending)
  /\ tracks.pending[k].stage = "reading"
  /\ tracks' = [tracks EXCEPT !.pending[k] = [@ EXCEPT !.stage = "read", !.files = tracks.dir,
                                                        !.readAt = tracks.now]]
  /\ UNCHANGED <<liveVars, call, result, server, home, clock, fetches>>

\* The await of request k resumes with the listing: the cache is replaced.
TracksReadDone(k) ==
  /\ k \in 1..Len(tracks.pending)
  /\ tracks.pending[k].stage = "read"
  /\ LET r == tracks.pending[k]
         imageFiles == ImageFiles(r.files)
     IN  tracks' = [tracks EXCEPT !.cache = [files |-> imageFiles, timestamp |-> r.now],
                                  !.readAt = r.readAt,
                                  !.pending = RemoveAt(@, k),
                                  !.resp = [status |-> 200, body |-> imageFiles, cached |-> FALSE]]
  /\ UNCHANGED <<liveVars, call, result, server, home, clock, fetches>>

\* readdir of request k rejects: 500 with [].
TracksReadFail(k) ==
  /\ k \in 1..Len(tracks.pending)
  /\ tracks.pending[k].stage = "reading"
  /\ tracks' = [tracks EXCEPT !.pending = RemoveAt(@, k),
                               !.resp = [status |-> 500, body |-> <<>>, cached |-> FALSE]]
  /\ UNCHANGED <<liveVars, call, result, server, home, clock, fetches>>

TracksNext ==
  \/ TracksTick
  \/ DirChange
  \/ TracksRequest
  \/ \E k \in 1..MaxRequests : TracksReadDir(k)
  \/ \E k \in 1..MaxRequests : TracksReadDone(k)
  \/ \E k \in 1..MaxRequests : TracksReadFail(k)

SpecTracks == Init /\ [][TracksNext]_vars

\* ------------------------------------------------------------------------
\* Properties of the Live screen (Spec)
\* ------------------------------------------------------------------------

\* C1: at most one playback handle is loaded at any time, under every
\* interleaving of overlapping loadAndPlay calls.
AtMostOneHandleLoaded == Cardinality(loaded) <= 1

\* C2: a loadAndPlay call starts only in a state where the user is logged in
\* and is subscribed or holds a day pass; without that, a tap on a driver
\* changes nothing and a tap on the listen button only navigates, to Login when
\* logged out and to Subscribe when logged in.
PlaybackOnlyWithAccess ==
  [][LET entitled == authState.loggedIn /\ (authState.subscribed \/ authState.hasDayPass)
         playback == <<streamUrl, streamCandidates, currentDriver, playing, playStatus,
                       lastError, soundRef, loaded, audible, runs, stops>>
     IN  /\ Len(runs') > Len(runs) => entitled
         /\ currentDriver' # currentDriver => entitled
         /\ ~entitled /\ (\E k \in 1..Len(drivers) : TapDriver(k))
              => UNCHANGED <<playback, nav>>
         /\ ~entitled /\ ListenPress
              => /\ nav' = IF authState.loggedIn THEN "Subscribe" ELSE "Login"
                 /\ UNCHANGED playback]_vars

\* A call is in flight after the user lost access, and the listen button has
\* sent the logged-in user to Subscribe.
DeniedListenAfterPlayback ==
  /\ Len(runs) > 0
  /\ nav = "Subscribe"
  /\ authState.loggedIn /\ ~authState.subscribed /\ ~authState.hasDayPass

ErrorOnlyAfterLastCandidate ==
  [][/\ \A k \in 1..Len(runs) :
          /\ RunSettled(k) => playStatus' = "playing" /\ lastError' = <<>>
          /\ RunFailed(k) =>
               IF runs[k].i = Len(runs[k].urls)
               THEN /\ playStatus' = "error" /\ ~playing'
                    /\ lastError' = Diagnostic(runs[k].i, Len(runs[k].urls))
               ELSE playStatus' = "loading"
     /\ playStatus' = "error" /\ playStatus # "error"
          => \E k \in 1..Len(runs) : RunFailed(k) /\ runs[k].i = Len(runs[k].urls)]_vars

\* C5: playStatus changes only along idle->loading, loading->playing,
\* loading->error, playing->idle, or into loading from any state.
PlayStatusTransitions ==
  [][playStatus' # playStatus =>
       \/ playStatus' = "loading"
       \/ <<playStatus, playStatus'>> \in
            { <<"loading", "playing">>, <<"loading", "error">>, <<"playing", "idle">> }]_vars

\* C6: once the screen is unmounted and no asynchronous step is pending, no
\* playback handle is loaded or playing.
NoHandleAfterUnmount ==
  (~mounted /\ runs = <<>> /\ stops = 0 /\ loadPc = "done")
    => loaded = {} /\ audible = {}

AnyRequestFailureFallsBack ==
  (loadPc = "done" /\ mounted
     /\ (~loadCtx.eventsOk \/ ~loadCtx.driversOk \/ ~loadCtx.iceOk))
    => /\ drivers = fallbackDrivers
       /\ ~liveInfo.live
       /\ streamCandidates = <<>>
       /\ streamUrl = <<>>
       /\ ~loading

\* Only the events request failed, and load has finished on a mounted screen.
OnlyEventsFailed ==
  /\ loadPc = "done" /\ mounted
  /\ ~loadCtx.eventsOk /\ loadCtx.driversOk /\ loadCtx.iceOk
  /\ drivers = fallbackDrivers /\ ~loading

\* C12: when the user-info or the session request of a fetchAccess call fails,
\* authState becomes logged out, the call returns that state (load stores no
\* candidates) and no driver card of the player can start playback; when only
\* the day-pass request fails, loggedIn and subscribed are those of user-info
\* and hasDayPass is false.
AccessFailureLogsOut ==
  [][\A resp \in AccessResponses :
       (FocusFetchAccessWith(resp) \/ LoadAccessDoneWith(resp)) =>
         /\ (~resp.infoOk \/ ~resp.sessOk) =>
              /\ authState' = [loggedIn |-> FALSE, subscribed |-> FALSE, hasDayPass |-> FALSE]
              /\ LoadAccessDoneWith(resp) => streamCandidates' = <<>> /\ streamUrl' = <<>>
              /\ (showPlayer => \A k \in 1..Len(drivers) : ~CardEnabled(drivers[k]))'
         /\ (resp.infoOk /\ resp.sessOk /\ ~resp.passOk) =>
              authState' = [loggedIn |-> resp.success, subscribed |-> resp.subscribed,
                            hasDayPass |-> FALSE]]_vars

\* A subscribed user with a call in flight was logged out by a fetchAccess call
\* whose session request failed.
LoggedOutDuringPlayback ==
  /\ Len(runs) > 0
  /\ sessionId # Undef
  /\ authState = LoggedOut
  /\ nav = "none"

\* C13: after the screen has unmounted, no step of load or of fetchAccess
\* updates liveInfo, authState, sessionId, drivers, streamCandidates, streamUrl
\* or loading.
NoUpdateAfterUnmount ==
  [][(~mounted /\ (loadPc' # loadPc \/ FocusFetchAccess))
       => UNCHANGED <<liveInfo, authState, sessionId, drivers, streamCandidates, streamUrl,
                      loading>>]_vars

\* C14: a mounted Home or Live screen that has the focus and no request
\* pending shows the account state the server reports.
FocusedScreenShowsServerAccount ==
  /\ (nav = "Home" /\ home.pc = "done" /\ ~home.navPending)
       => home.auth = [loggedIn |-> server.loggedIn, subscribed |-> server.subscribed]
  /\ (nav = "none" /\ mounted /\ loadPc = "done")
       => authState.loggedIn = server.loggedIn /\ authState.subscribed = server.subscribed

\* C19 as stated: the live status is recomputed as time passes. While the
\* screen stays mounted with its events loaded, once the clock is outside
\* every event's live window liveInfo.live eventually is false, and once it is
\* inside a window liveInfo.live eventually is true (unless the clock has
\* moved on or the screen was left meanwhile).
LiveStatusFollowsClock ==
  LET loadedEvents == mounted /\ loadPc = "done" /\ "events" \in DOMAIN loadCtx
      inside == \E i \in 1..Len(loadCtx.events) : InLiveWindow(loadCtx.events[i], clock)
  IN  /\ (loadedEvents /\ ~inside) ~> (~liveInfo.live \/ ~mounted \/ (loadedEvents /\ inside))
      /\ (loadedEvents /\ inside) ~> (liveInfo.live \/ ~mounted \/ (loadedEvents /\ ~inside))

\* C26 as stated: in every reachable state the playing flag is true exactly
\* when playStatus is 'playing'.
PlayingIffStatusPlaying == playing <=> (playStatus = "playing")

\* C28: when load's fetchAccess call obtained a session id from /api/session,
\* the candidates load stores for the first active driver start with the
\* proxy URL that carries "&sid=" and that session id.
LoadCandidatesCarrySessionId ==
  [][\A resp \in AccessResponses :
       (/\ LoadAccessDoneWith(resp)
        /\ resp.infoOk /\ resp.sessOk /\ Truthy(resp.sid)
        /\ streamCandidates' # <<>>)
         => /\ startsWith(streamCandidates'[1], STREAM_PROXY)
            /\ endsWith(streamCandidates'[1],
                        <<"&","s","i","d","=">> \o encodeURIComponent(resp.sid))]_vars

\* C29: every driver of the roster that is marked isActive has a defined
\* mount (activePath or plainMount) and a non-empty list of stream
\* candidates, the hardcoded fallbackDrivers included.
ActiveDriversHaveMountAndCandidates ==
  \A k \in 1..Len(drivers) :
    ("isActive" \in DOMAIN drivers[k] /\ drivers[k].isActive)
      => /\ Truthy(MountOf(drivers[k]))
         /\ buildStreamCandidates(MountOf(drivers[k]), sessionId) # <<>>

\* ------------------------------------------------------------------------
\* Properties of the helpers (SpecData)
\* ------------------------------------------------------------------------

MountResolutionPrecedence ==
  call.fn = "enrichedDrivers" =>
    \A i \in 1..Len(result.drivers) :
      LET d == result.drivers[i]
          set == result.activeMounts
          plain == Prop(d, "plainMount")
          ice == Prop(d, "icecastMount")
          hint == toLowerCase(d.classType \o <<"-">> \o slugify(d.number, <<>>))
          hits == {k \in 1..Len(set) : includes(toLowerCase(set[k]), hint)}
      IN  d.activePath =
            IF \E k \in 1..Len(set) : set[k] = plain THEN plain
            ELSE IF \E k \in 1..Len(set) : set[k] = ice THEN ice
            ELSE IF hits # {} THEN set[CHOOSE k \in hits : \A m \in hits : k <= m]
            ELSE plain

\* A driver whose icecastMount is active and whose plainMount is not, with an
\* earlier active mount that contains its hint: it resolved to icecastMount.
IcecastMountChosen ==
  /\ call.fn = "enrichedDrivers"
  /\ \E i \in 1..Len(result.drivers) :
       LET d == result.drivers[i]
           set == result.activeMounts
       IN  /\ "icecastMount" \in DOMAIN d
           /\ d.activePath = d.icecastMount
           /\ ~has(set, d.plainMount)
           /\ \E k \in 1..Len(set) :
                /\ set[k] # d.icecastMount
                /\ includes(toLowerCase(set[k]), <<"l","m","s","c","-","2","8">>)

\* C9: a driver is active exactly when the active-mount set is empty or holds
\* the driver's activePath.
ActiveIffEmptyOrMember ==
  call.fn = "enrichedDrivers" =>
    \A i \in 1..Len(result.drivers) :
      result.drivers[i].isActive
        <=> (result.activeMounts = <<>>
             \/ \E k \in 1..Len(result.activeMounts) :
                  result.activeMounts[k] = result.drivers[i].activePath)

\* With one active mount, one driver of the CSV is active and the other is not.
OneActiveOneInactive ==
  /\ call.fn = "enrichedDrivers"
  /\ Len(result.activeMounts) = 1
  /\ \E i, j \in 1..Len(result.drivers) :
       result.drivers[i].isActive /\ ~result.drivers[j].isActive

\* C16: for a single PLM event and an instant 20 minutes before its start,
\* computeLiveInfo of the Live screen reports live = true (30-minute pre-roll)
\* while isLiveWindow of the Schedule screen reports false for the same event
\* (10-minute pre-roll).
LiveBeforeScheduleMarksLive ==
  ( /\ call.fn = "liveWindows"
    /\ Len(call.events) = 1
    /\ call.events[1].classType = <<"P","L","M">>
    /\ call.now = call.events[1].start - 20 )
    => result.liveInfo.live /\ ~result.scheduleLive[1]

TwentyMinutesBeforePlm ==
  /\ call.fn = "liveWindows"
  /\ call.events = <<EventPlm>>
  /\ call.now = EventPlm.start - 20
  /\ result.liveInfo.live
  /\ ~result.scheduleLive[1]

\* C17: an events CSV with one data row, no class column and the track
\* "Daytona - LMSC" parses to exactly two records: the first of class PLM with
\* raceId <raceId>-PLM and the row's start time, the second of class LMSC with
\* raceId <raceId>-LMSC and a start time exactly two hours later.
UnclassifiedRowSplitsInTwo ==
  ( /\ call.fn = "parseEvents"
    /\ Truthy(call.csvText)
    /\ Len(FilterNonEmpty(SplitLines(call.csvText))) = 2 )
    => LET lines == FilterNonEmpty(SplitLines(call.csvText))
           header == HeaderOf(lines[1])
           cols == parseCsvRow(lines[2])
           col(name) == At(cols, indexOf(header, name))
       IN  ( /\ indexOf(header, H_class) = -1
             /\ \A h \in {H_raceid, H_track, H_date, H_time} : indexOf(header, h) >= 0
             /\ col(H_track) = <<"D","a","y","t","o","n","a"," ","-"," ","L","M","S","C">>
             /\ DateMinutes(col(H_date), col(H_time)) # NaN )
             => /\ Len(result) = 2
                /\ result[1].classType = <<"P","L","M">>
                /\ result[1].raceId = col(H_raceid) \o <<"-","P","L","M">>
                /\ result[1].start = DateMinutes(col(H_date), col(H_time))
                /\ result[2].classType = <<"L","M","S","C">>
                /\ result[2].raceId = col(H_raceid) \o <<"-","L","M","S","C">>
                /\ result[2].start = result[1].start + 120

DaytonaRowSplit ==
  /\ call.fn = "parseEvents"
  /\ call.csvText = EventsNoClass
  /\ Len(result) = 2
  /\ result[1].raceId = <<"R","1","-","P","L","M">>
  /\ result[1].start = 29034450
  /\ result[2].raceId = <<"R","1","-","L","M","S","C">>
  /\ result[2].start = 29034570

\* C18: when several events are live at the same instant, eventLabel,
\* activeRaceId and activeClass are those of the first live event in list
\* order, whatever the start times; when no event is live, activeRaceId and
\* activeClass are null and activeClasses is empty.
FirstLiveEventInListOrderWins ==
  call.fn = "liveWindows" =>
    LET liveAt == {i \in 1..Len(call.events) : InLiveWindow(call.events[i], call.now)}
        info == result.liveInfo
    IN  IF liveAt = {}
        THEN info.activeRaceId = Undef /\ info.activeClass = Undef /\ info.activeClasses = <<>>
        ELSE LET first == call.events[CHOOSE i \in liveAt : \A j \in liveAt : i <= j]
             IN  /\ info.eventLabel = first.track
                 /\ info.activeRaceId = first.raceId
                 /\ info.activeClass = first.classType

LaterStartListedFirst ==
  /\ call.fn = "liveWindows"
  /\ call.events = <<EventLmscLater, EventPlm>>
  /\ InLiveWindow(EventLmscLater, call.now)
  /\ InLiveWindow(EventPlm, call.now)
  /\ result.liveInfo.activeRaceId = EventLmscLater.raceId
  /\ result.liveInfo.activeClasses = <<EventLmscLater.classType, EventPlm.classType>>

\* C20: slugify is idempotent, slugify(slugify(x)) = slugify(x) for every
\* string x; slugify("LMSC") = "lmsc"; and for an empty input, or one with no
\* letter or digit, slugify returns the fallback passed to it.
SlugifyIdempotent ==
  call.fn = "slugify" =>
    LET x == StrOrEmpty(call.value)
        plain == \A i \in 1..Len(x) : x[i] \notin Lower \cup Upper \cup Digit
    IN  /\ ~Truthy(call.fallback) => result.again = result.first
        /\ x = <<"L","M","S","C">> => result.first = <<"l","m","s","c">>
        /\ plain => result.first = StrOrEmpty(call.fallback)
        /\ ~plain => result.again = result.first

SlugOfDriverName ==
  /\ call.fn = "slugify"
  /\ call.value = <<"A","l"," ","U","n","s","e","r"," ","J","r",".">>
  /\ call.fallback = <<>>
  /\ result.first = <<"a","l","-","u","n","s","e","r","-","j","r">>
  /\ result.again = result.first

\* C21: for every row parsed by parseDrivers, plainMount is
\* '/' + class-slug + '-' + number-slug + '-' + name-slug + '.mp3', where an
\* empty class gives 'class', an empty number 'na' and an empty name the
\* number's slug or 'driver', so that no segment is empty; icecastMount is
\* '/icecast' + plainMount; rows with equal (class, number, name) have equal
\* mounts.
PlainMountFromClassNumberName ==
  ( /\ call.fn = "enrichedDrivers"
    /\ Truthy(call.driverText)
    /\ Len(FilterNonEmpty(SplitLines(call.driverText))) >= 2 )
    => LET rows == result.parsedDrivers
           or(s, other) == IF s # <<>> THEN s ELSE other
           classSeg(d) == or(slugify(d.classType, <<>>), <<"c","l","a","s","s">>)
           numberSeg(d) == or(slugify(d.number, <<>>), <<"n","a">>)
           nameSeg(d) == IF Truthy(d.name) THEN or(slugify(d.name, <<>>), <<"d","r","i","v","e","r">>)
                         ELSE or(slugify(d.number, <<>>), <<"d","r","i","v","e","r">>)
       IN  /\ \A i \in 1..Len(rows) :
                /\ classSeg(rows[i]) # <<>> /\ numberSeg(rows[i]) # <<>> /\ nameSeg(rows[i]) # <<>>
                /\ rows[i].plainMount = <<"/">> \o classSeg(rows[i]) \o <<"-">> \o numberSeg(rows[i])
                                          \o <<"-">> \o nameSeg(rows[i]) \o DotMp3
                /\ rows[i].icecastMount = SlashIcecast \o rows[i].plainMount
           /\ \A i, j \in 1..Len(rows) :
                ( /\ rows[i].classType = rows[j].classType
                  /\ rows[i].number = rows[j].number
                  /\ rows[i].name = rows[j].name )
                  => /\ rows[i].plainMount = rows[j].plainMount
                     /\ rows[i].icecastMount = rows[j].icecastMount

MountsOfEmptyCells ==
  /\ call.fn = "enrichedDrivers"
  /\ call.driverText = CsvEmptyCells
  /\ result.parsedDrivers[1].plainMount = <<"/","c","l","a","s","s","-","n","a","-","d","r","i","v","e","r",".","m","p","3">>
  /\ result.parsedDrivers[2].plainMount = <<"/","c","l","a","s","s","-","9","-","9",".","m","p","3">>
  /\ result.parsedDrivers[3].plainMount = <<"/","p","l","m","-","n","a","-","z","e","d",".","m","p","3">>
  /\ result.parsedDrivers[4].plainMount = <<"/","l","m","s","c","-","n","a","-","d","r","i","v","e","r",".","m","p","3">>
  /\ result.parsedDrivers[5].classList # result.parsedDrivers[6].classList
  /\ result.parsedDrivers[5].plainMount = result.parsedDrivers[6].plainMount

\* C22 as stated: a data line with fewer columns than the header addresses
\* still yields one record, and the fields the line does not reach are the
\* empty string, never an undefined value.
ShortRowFieldsAreEmptyStrings ==
  /\ ( /\ call.fn = "enrichedDrivers"
       /\ Truthy(call.driverText)
       /\ Len(FilterNonEmpty(SplitLines(call.driverText))) >= 2 )
       => /\ Len(result.parsedDrivers) = Len(FilterNonEmpty(SplitLines(call.driverText))) - 1
          /\ \A i \in 1..Len(result.parsedDrivers) :
               \A f \in {"number", "name", "classType", "plainMount", "icecastMount",
                          "logo", "frequency"} :
                 result.parsedDrivers[i][f] # Undef
  /\ call.fn = "parseEvents"
       => \A i \in 1..Len(result) : result[i].raceId # Undef /\ result[i].track # Undef

\* C23: when a recognized header name is absent from the header line, the
\* field is read by position (drivers: number column 0, name column 1, class
\* column 5; events: raceId column 0, track column 1, date column 3, time
\* column 4), and the records are returned all the same.
AbsentHeaderReadByPosition ==
  LET absent(header, name) == ~\E k \in 1..Len(header) : header[k] = name
  IN  /\ ( /\ call.fn = "enrichedDrivers"
           /\ Truthy(call.driverText)
           /\ Len(FilterNonEmpty(SplitLines(call.driverText))) >= 2 )
           => LET lines == FilterNonEmpty(SplitLines(call.driverText))
                  header == HeaderOf(lines[1])
                  rows == result.parsedDrivers
              IN  /\ Len(rows) = Len(lines) - 1
                  /\ \A i \in 1..Len(rows) :
                       LET cols == parseCsvRow(lines[i + 1])
                       IN  /\ absent(header, H_driver_number) => rows[i].number = At(cols, 0)
                           /\ absent(header, H_driver_name) => rows[i].name = At(cols, 1)
                           /\ absent(header, H_class)
                                => rows[i].classList = normalizeClassList(At(cols, 5))
      /\ ( /\ call.fn = "parseEvents"
           /\ Truthy(call.csvText)
           /\ Len(FilterNonEmpty(SplitLines(call.csvText))) = 2 )
           => LET lines == FilterNonEmpty(SplitLines(call.csvText))
                  header == HeaderOf(lines[1])
                  cols == parseCsvRow(lines[2])
                  date == IF absent(header, H_date) THEN At(cols, 3)
                          ELSE At(cols, indexOf(header, H_date))
                  time == IF absent(header, H_time) THEN At(cols, 4)
                          ELSE At(cols, indexOf(header, H_time))
              IN  /\ Len(result) >= 1
                  /\ absent(header, H_raceid)
                       => result[1].raceId \in {At(cols, 0), Interp(At(cols, 0)) \o <<"-","P","L","M">>}
                  /\ absent(header, H_track) => result[1].track = At(cols, 1)
                  /\ result[1].start = DateMinutes(date, time)

EventTimeReadByPosition ==
  /\ call.fn = "parseEvents"
  /\ call.csvText = EventsTimeByPosition
  /\ result = <<[raceId |-> <<"R","7">>, classType |-> <<"S","M","T">>, track |-> <<"S","e","b","r","i","n","g">>, start |-> 29035560]>>

\* C24 as stated: normalizeClassList returns upper-cased, non-empty labels; a
\* string that contains one of the delimiters , / | ; is split on them after
\* its brackets are removed, and a string that contains none of them yields
\* its alphabetic tokens ('lmsc plm' yields LMSC and PLM).
ClassLabelsSplitOrTokenized ==
  call.fn = "normalizeClassList" =>
    LET value == StrOrEmpty(call.value)
        delimited == \E i \in 1..Len(value) : value[i] \in ClassDelims
        parts == split(RemoveBrackets(value), ClassDelims)
        pieces == FilterNonEmpty([i \in 1..Len(parts) |-> toUpperCase(trim(parts[i]))])
        tokens == LetterRuns(value, <<>>)
    IN  /\ \A i \in 1..Len(result) : result[i] # <<>> /\ result[i] = toUpperCase(result[i])
        /\ delimited => result = pieces
        /\ ~delimited => result = [i \in 1..Len(tokens) |-> toUpperCase(tokens[i])]

\* C30: an activePath that load resolved to a mount of the active-mount set
\* belongs to that driver: two drivers that differ in class or in number
\* never resolve to the same active mount (number 2 never gets the mount of
\* number 28).
ActiveMountOfOneDriverOnly ==
  call.fn = "enrichedDrivers" =>
    \A i, j \in 1..Len(result.drivers) :
      LET a == result.drivers[i]
          b == result.drivers[j]
      IN  (/\ has(result.activeMounts, a.activePath)
           /\ a.activePath = b.activePath)
            => (a.classType = b.classType /\ a.number = b.number)

\* ------------------------------------------------------------------------
\* Properties of purchases (SpecAccount)
\* ------------------------------------------------------------------------

\* C15: while every completed purchase of a user is a day pass, user-info does
\* not report the user as subscribed, and fetchAccess grants access exactly
\* when the user is logged in and the active race is an event of one of the
\* passes.
DayPassGrantsOnlyItsEvent ==
  /\ (\A p \in server.purchases : p.plan = "day-pass")
       => ~ServerResponse(server).subscribed
  /\ (call.fn = "fetchAccess" /\ \A p \in call.server.purchases : p.plan = "day-pass")
       => ((result.loggedIn /\ (result.subscribed \/ result.hasDayPass))
             <=> (/\ call.server.loggedIn
                  /\ \E p \in call.server.purchases :
                       toUpperCase(p.eventId) = toUpperCase(StrOrEmpty(call.raceId))))


\* ------------------------------------------------------------------------
\* Properties of GET /api/tracks (SpecTracks)
\* ------------------------------------------------------------------------

\* C25: a request is answered from the cache exactly when the cached listing
\* is non-empty and less than 60 seconds old, and then the listing it returns
\* was read from the directory less than 60 seconds ago; otherwise the
\* directory is re-read: a successful read replaces the cached list and its
\* timestamp together, a failed read answers 500 with [] and leaves the cache
\* as it was.
TracksCacheContract ==
  [][ LET fresh == /\ tracks.cache.files # <<>>
                   /\ tracks.now - tracks.cache.timestamp < CacheDuration
      IN  /\ (tracks'.made # tracks.made /\ fresh)
               => /\ tracks'.resp = [status |-> 200, body |-> tracks.cache.files, cached |-> TRUE]
                  /\ tracks.now - tracks.readAt < CacheDuration
                  /\ tracks'.cache = tracks.cache
                  /\ tracks'.pending = tracks.pending
          /\ (tracks'.made # tracks.made /\ ~fresh)
               => /\ Len(tracks'.pending) = Len(tracks.pending) + 1
                  /\ tracks'.pending[Len(tracks'.pending)].stage = "reading"
                  /\ tracks'.cache = tracks.cache
                  /\ tracks'.resp = tracks.resp
          /\ \A k \in 1..Len(tracks.pending) :
               /\ TracksReadDone(k)
                    => /\ tracks'.cache = [files |-> ImageFiles(tracks.pending[k].files),
                                           timestamp |-> tracks.pending[k].now]
                       /\ tracks'.resp = [status |-> 200, cached |-> FALSE,
                                          body |-> ImageFiles(tracks.pending[k].files)]
               /\ TracksReadFail(k)
                    => /\ tracks'.resp = [status |-> 500, body |-> <<>>, cached |-> FALSE]
                       /\ tracks'.cache = tracks.cache ]_vars

\* A listing read 59 seconds ago was served from the cache after two
\* overlapping requests had both replaced it.
CachedAnswerAtFiftyNine ==
  /\ tracks.made = MaxRequests
  /\ tracks.pending = <<>>
  /\ tracks.resp.cached
  /\ tracks.resp.body # <<>>
  /\ tracks.now - tracks.readAt = 59
  /\ tracks.cache.timestamp < tracks.readAt

\* ------------------------------------------------------------------------
\* Properties of overlapping fetchAccess calls (SpecOverlap)
\* ------------------------------------------------------------------------

\* C27: when the fetchAccess calls of the focus effect and of load overlap
\* and the server answers all of them alike, the authState left once all of
\* them have returned is the result of the call issued last: the late answer
\* of an earlier call never overwrites it, and hasDayPass is not reset by the
\* call made without a race id.
LastIssuedFetchAccessDecides ==
  (fetches.inflight = {} /\ fetches.last # <<>> /\ Cardinality(fetches.answers) = 1)
    => authState = fetches.last[1]

====
